---- MODULE Spec2Model ----
(***************************************************************************)
(* Author / publication consistency model of the publication-repository    *)
(* backend: the Express handlers of controllers/user.controller.js running *)
(* as concurrent requests over the Author, Publication and Department      *)
(* collections, with the Mongoose hooks of models/author.model.js.         *)
(*                                                                         *)
(* A request is a process: it is started by a handler's Start action, and  *)
(* then takes one step per awaited storage (or upload) call, so requests   *)
(* interleave exactly where the handlers await.  null is written 0.        *)
(***************************************************************************)
EXTENDS Integers, FiniteSets, Sequences, TLC

\* ---- bounds ----------------------------------------------------------
MaxAuthorId == 4        \* Author documents ever inserted
MaxPubId == 2           \* Publication documents ever inserted
MaxRequests == 5        \* requests ever received

Reqs == {1, 2}          \* request slots (requests in flight at once)
EmpIds == {1, 2}        \* employee_id values of well-formed requests
DeptIds == {1, 2}       \* Department ObjectIds that requests may name
SeededDepartments == {1} \* _id of the Department documents present at start-up
Isbns == {1, 2}         \* well-formed ISBN/ISSN values
IsbnInputs == {-1, 1, 2} \* isbnIssn of the request body (-1: ill-formed)
Urls == {1}             \* secure_url values the upload may return
CountInputs == {0, 1}   \* coAuthorCount of the request body (0: absent)
OrderInputs == {-1, 1, 2} \* author_order of the request body, when present
DeptOverrides == {0, 2} \* department of an assignment request (0: absent)
NameOverrides == {0, 3} \* author_name of an assignment request (0: absent)

VARIABLES
    authors,        \* the Author collection: a set of documents
    pubs,           \* the Publication collection: a set of documents
    departments,    \* the Department collection: a set of documents
    nextAuthorId,   \* next fresh Author _id
    nextPubId,      \* next fresh Publication _id
    pc,             \* per request slot: where the handler is
    req,            \* per request slot: handler and request body
    loc,            \* per request slot: the handler's local variables
    resp,           \* per request slot: the response sent (status 0: none)
    received,       \* number of requests received so far
    staged,         \* per request slot: the request's locally staged file exists
    users,          \* the User collection: a set of documents
    query,          \* the query string of the last listing or search request
    result,         \* the response to the last listing or search request
    fetched,        \* the pages a client walking a listing from page 1 was given
    admins,         \* the Admin collection: a set of documents
    store,          \* the session store: per session id the userId saved, 0 for none
    nextSid,        \* next fresh session id
    sess            \* per request slot: req.session of the request

vars == <<authors, pubs, departments, nextAuthorId, nextPubId, pc, req, loc, resp,
          received, staged, users, query, result, fetched, admins, store, nextSid, sess>>
db == <<authors, pubs, departments, nextAuthorId, nextPubId>>

\* the state of the listing and search handlers, which the writing handlers
\* leave alone
auth == <<admins, store, nextSid, sess>>
reads == <<users, query, result, fetched, auth>>

\* ---- requests --------------------------------------------------------
\* sid is the session id of the request's cookie; name, university, code, role
\* and admin_id are fields of the bodies of the department and admin routes
NoReq == [op |-> "none", employee_id |-> 0, publication_id |-> 0,
          author_order |-> 0, department |-> 0, isbnIssn |-> 0,
          coAuthorCount |-> 0, fields |-> "ok", file |-> FALSE, author_id |-> 0,
          sid |-> 0, email |-> 0, password |-> 0, name |-> 0, university |-> 0,
          role |-> "none", admin_id |-> 0, author_name |-> 0]
NoAdmin == [id |-> 0, email |-> 0, password |-> 0, role |-> "none", isActive |-> FALSE]
NoLoc == [found |-> 0, department |-> 0, count |-> 0, url |-> 0, admin |-> NoAdmin,
          author_name |-> 0, password |-> 0]
NoResp == [status |-> 0, message |-> "none"]
MaxSessions == 2        \* session ids the store hands out
NoSess == [id |-> 0, userId |-> 0, modified |-> FALSE]

\* a request arrives and takes the lowest free slot; upload.single("pdfFile")
\* has staged the file of a request that carries one
Begin(r, request) ==
    /\ pc[r] = "idle"
    /\ \A s \in Reqs : s < r => pc[s] # "idle"
    /\ received < MaxRequests
    /\ received' = received + 1
    /\ req' = [req EXCEPT ![r] = request]
    /\ staged' = [staged EXCEPT ![r] = request.file]
    /\ UNCHANGED reads

\* the handler resumes after the awaited call at label
At(r, label) ==
    /\ pc[r] = label
    /\ UNCHANGED <<received, staged, reads>>

\* res.status(status).json({ message }): the handler returns
Respond(r, status, message) ==
    /\ pc' = [pc EXCEPT ![r] = "done"]
    /\ resp' = [resp EXCEPT ![r] = [status |-> status, message |-> message]]
    /\ loc' = [loc EXCEPT ![r] = NoLoc]

\* the same, after an awaited call: the request body is dropped
Reply(r, status, message) ==
    /\ Respond(r, status, message)
    /\ req' = [req EXCEPT ![r] = [NoReq EXCEPT !.op = req[r].op]]

\* the handler goes on to the awaited call at label
Goto(r, label) ==
    /\ pc' = [pc EXCEPT ![r] = label]
    /\ UNCHANGED resp

Continue(r, label) ==
    /\ Goto(r, label)
    /\ UNCHANGED req

\* ---- collections -----------------------------------------------------
\* name, code and university are numbers, 0 for a field the document lacks
DepartmentDoc(id, name, code, university) ==
    [id |-> id, name |-> name, code |-> code, university |-> university]

\* the seeded departments, all of university 1
SeededDepartmentDocs == {DepartmentDoc(d, d, d, 1) : d \in SeededDepartments}

\* Department.findById(id) finds a document
DepartmentExists(id) == \E d \in departments : d.id = id

\* requests register employee e under the name e and with the password e
AuthorDoc(id, e, p, o, d) ==
    [id |-> id, employee_id |-> e, publication_id |-> p, author_order |-> o,
     department |-> d, isActive |-> TRUE, author_name |-> e, password |-> e]

PublicationDoc(id, d, isbn, url, c) ==
    [id |-> id, department |-> d, isbnIssn |-> isbn, file_url |-> url,
     coAuthorCount |-> c]

\* publication_id of a request: a publication ever registered, or one never
PubInputs == 1..nextPubId

PubExists(p) == \E x \in pubs : x.id = p
PubOf(p) == CHOOSE x \in pubs : x.id = p

\* a count of the co-authors only, as the getCoAuthors static selects them
CountCoAuthorsOnly(p) ==
    Cardinality({a \in authors : a.publication_id = p /\ a.author_order > 1})

\* Author.countDocuments({ publication_id })
CountDocuments(p) == Cardinality({a \in authors : a.publication_id = p})

\* Publication.findByIdAndUpdate(p, { coAuthorCount: count })
SetCoAuthorCount(p, count) ==
    {IF x.id = p THEN [x EXCEPT !.coAuthorCount = count] ELSE x : x \in pubs}

\* the Author collection with the index on (publication_id, employee_id) only
ViolatedPairIndexOnly(doc) ==
    IF doc.publication_id = 0 THEN {}
    ELSE IF \E a \in authors : /\ a.publication_id = doc.publication_id
                               /\ a.employee_id = doc.employee_id
    THEN {{"publication_id", "employee_id"}} ELSE {}

\* the Author collection with the index on (publication_id, author_order) only
ViolatedOrderIndexOnly(doc) ==
    IF doc.publication_id = 0 THEN {}
    ELSE IF \E a \in authors : /\ a.publication_id = doc.publication_id
                               /\ a.author_order = doc.author_order
    THEN {{"publication_id", "author_order"}} ELSE {}

\* the unique partial indexes of the Author collection: the key patterns
\* that inserting doc would violate
ViolatedIndexes(doc) ==
    IF doc.publication_id = 0 THEN {}
    ELSE
      (IF \E a \in authors : /\ a.publication_id = doc.publication_id
                             /\ a.employee_id = doc.employee_id
       THEN {{"publication_id", "employee_id"}} ELSE {})
      \cup
      (IF \E a \in authors : /\ a.publication_id = doc.publication_id
                             /\ a.author_order = doc.author_order
       THEN {{"publication_id", "author_order"}} ELSE {})

\* requests in flight that may still insert a document
PendingAuthorInserts ==
    Cardinality({r \in Reqs : pc[r] \in {"ra_find", "ra_department", "ra_save",
                                          "as_template", "as_publication",
                                          "as_assignment", "as_order", "as_save"}})
PendingPubInserts ==
    Cardinality({r \in Reqs : pc[r] \in {"rp_upload", "rp_save"}})
AuthorIdFree == nextAuthorId + PendingAuthorInserts <= MaxAuthorId
PubIdFree == nextPubId + PendingPubInserts <= MaxPubId

\* no listing or search request has been made
NoQuery == [op |-> "none"]
NoResult == [status |-> 0]

\* no request in flight
InitRequests ==
    /\ query = NoQuery
    /\ result = NoResult
    /\ fetched = <<>>
    /\ admins = {}
    /\ store = [sid \in 1..MaxSessions |-> 0]
    /\ nextSid = 1
    /\ sess = [r \in Reqs |-> NoSess]
    /\ pc = [r \in Reqs |-> "idle"]
    /\ req = [r \in Reqs |-> NoReq]
    /\ loc = [r \in Reqs |-> NoLoc]
    /\ resp = [r \in Reqs |-> NoResp]
    /\ staged = [r \in Reqs |-> FALSE]

\* the server starts on a database that holds the seeded departments only
Init ==
    /\ authors = {}
    /\ pubs = {}
    /\ users = {}
    /\ departments = SeededDepartmentDocs
    /\ nextAuthorId = 1
    /\ nextPubId = 1
    /\ InitRequests
    /\ received = 0

\* the database after one publication and two authors have been registered
SeededAuthors == {AuthorDoc(1, 1, 0, 0, 1), AuthorDoc(2, 2, 0, 0, 1)}
SeededPublications == {PublicationDoc(1, 1, 1, 1, 0)}

\* the requests that built the seeded database
SeedRequests == Cardinality(SeededAuthors) + Cardinality(SeededPublications)

\* the server has received SeedRequests requests: all were refused and the
\* database is as it started, or all succeeded and it is the seeded database
InitSeeded ==
    /\ \/ authors = {} /\ pubs = {} /\ nextAuthorId = 1 /\ nextPubId = 1
       \/ /\ authors = SeededAuthors
          /\ pubs = SeededPublications
          /\ nextAuthorId = 3
          /\ nextPubId = 2
    /\ departments = SeededDepartmentDocs
    /\ users = {}
    /\ InitRequests
    /\ received = SeedRequests

\* ---- registerAuthor --------------------------------------------------
\* the checks of the request body
RegisterAuthorStart(r) ==
    \/ /\ Begin(r, [NoReq EXCEPT !.op = "registerAuthor", !.fields = "missing"])
       /\ Respond(r, 400, "Please provide all required fields for registration")
       /\ UNCHANGED db
    \/ \E e \in EmpIds, d \in DeptIds :
         /\ AuthorIdFree
         /\ Begin(r, [NoReq EXCEPT !.op = "registerAuthor", !.employee_id = e,
                                   !.department = d])
         /\ Goto(r, "ra_find")
         /\ UNCHANGED <<db, loc>>

\* a handler without the lookup of the employee's record
ExistingAuthorUnchecked(e) == FALSE

\* Author.findOne({ employee_id, isActive: true })
ExistingAuthor(e) == \E a \in authors : a.employee_id = e /\ a.isActive

RegisterAuthorFind(r) ==
    /\ At(r, "ra_find")
    /\ IF ExistingAuthor(req[r].employee_id)
       THEN Reply(r, 400, "Author with this employee ID already exists")
       ELSE Continue(r, "ra_department") /\ UNCHANGED loc
    /\ UNCHANGED db

\* Department.findById(department)
RegisterAuthorDepartment(r) ==
    /\ At(r, "ra_department")
    /\ IF ~DepartmentExists(req[r].department)
       THEN Reply(r, 400, "Department not found. Please provide a valid department ID.")
       ELSE Continue(r, "ra_save") /\ UNCHANGED loc
    /\ UNCHANGED db

\* newAuthor.save(): publication_id null, so no unique index applies and
\* the post-save hook does nothing
RegisterAuthorSave(r) ==
    /\ At(r, "ra_save")
    /\ authors' = authors \cup
         {AuthorDoc(nextAuthorId, req[r].employee_id, 0, 0, req[r].department)}
    /\ nextAuthorId' = nextAuthorId + 1
    /\ Reply(r, 201, "Author registered successfully")
    /\ UNCHANGED <<pubs, departments, nextPubId>>

\* ---- registerPublication ---------------------------------------------
\* the checks of the body and of req.file, up to the call of the upload
RegisterPublicationStart(r) ==
    \/ \E f \in {"missing", "invalid"}, hasFile \in BOOLEAN :
         /\ Begin(r, [NoReq EXCEPT !.op = "registerPublication", !.fields = f,
                                   !.file = hasFile])
         /\ Respond(r, 400, IF f = "missing"
                            THEN "Please provide all required fields"
                            ELSE "Invalid field value")
         /\ UNCHANGED db
    \/ /\ Begin(r, [NoReq EXCEPT !.op = "registerPublication"])
       /\ Respond(r, 400, "PDF file is required")
       /\ UNCHANGED db
    \/ \E d \in DeptIds, i \in IsbnInputs, c \in CountInputs :
         /\ i \notin Isbns => (d = 1 /\ c = 0)
         /\ PubIdFree
         /\ Begin(r, [NoReq EXCEPT !.op = "registerPublication", !.department = d,
                                   !.isbnIssn = i, !.coAuthorCount = c,
                                   !.file = TRUE])
         /\ Goto(r, "rp_upload")
         /\ UNCHANGED <<db, loc>>

\* fs.unlinkSync(localFilePath) when fs.existsSync(localFilePath)
Unlink(r) == [staged EXCEPT ![r] = FALSE]

\* UploadOnCloudinary(req.file.path): null, or a response with a secure_url;
\* either way it has unlinked the staged file
RegisterPublicationUpload(r) ==
    /\ pc[r] = "rp_upload"
    /\ UNCHANGED <<received, reads>>
    /\ staged' = Unlink(r)
    /\ \E u \in {0} \cup Urls :
         IF u = 0
         THEN Reply(r, 500, "File upload to Cloudinary failed")
         ELSE /\ Continue(r, "rp_save")
              /\ loc' = [loc EXCEPT ![r].url = u]
    /\ UNCHANGED db

\* a document built without the URL of the upload
NewPublicationWithoutUrl(r) ==
    PublicationDoc(nextPubId, req[r].department, req[r].isbnIssn, 0,
                   req[r].coAuthorCount)

\* the document registerPublication builds
NewPublication(r) ==
    PublicationDoc(nextPubId, req[r].department, req[r].isbnIssn, loc[r].url,
                   req[r].coAuthorCount)

\* a lookup that finds no Publication
IsbnTakenUnchecked(i) == FALSE

\* the unique index on isbnIssn: a Publication holds the value
IsbnTaken(i) == \E x \in pubs : x.isbnIssn = i

\* newPublication.save(): schema validation, then the insert under the
\* unique index on isbnIssn, or any other error of the storage layer; the
\* catch block unlinks the staged file only before its 500 response
RegisterPublicationSave(r) ==
    /\ pc[r] = "rp_save"
    /\ UNCHANGED <<received, reads>>
    /\ \/ /\ IF req[r].isbnIssn \notin Isbns
             THEN Reply(r, 400, "Validation error") /\ UNCHANGED db
             ELSE IF IsbnTaken(req[r].isbnIssn)
             THEN Reply(r, 400, "Publication with this ISBN/ISSN already exists")
                  /\ UNCHANGED db
             ELSE /\ pubs' = pubs \cup {NewPublication(r)}
                  /\ nextPubId' = nextPubId + 1
                  /\ Reply(r, 201, "Publication registered successfully")
                  /\ UNCHANGED <<authors, departments, nextAuthorId>>
          /\ UNCHANGED staged
       \/ /\ Reply(r, 500, "Internal server error")
          /\ staged' = Unlink(r)
          /\ UNCHANGED db

\* ---- assignAuthorToPublication ---------------------------------------
\* the message of the error.code === 11000 branch for a violated key pattern
DupKeyMessage(keyPattern) ==
    IF "employee_id" \in keyPattern
    THEN "Employee ID constraint violation. There may be a problematic unique index on employee_id."
    ELSE IF {"publication_id", "employee_id"} \subseteq keyPattern
    THEN "Author is already assigned to this publication."
    ELSE IF {"publication_id", "author_order"} \subseteq keyPattern
    THEN "Author order N is already taken for this publication."
    ELSE "Duplicate assignment detected."

\* the required-field check of the request body
AssignStart(r) ==
    \/ /\ Begin(r, [NoReq EXCEPT !.op = "assign", !.employee_id = 1,
                                 !.publication_id = 1])
       /\ Respond(r, 400, "Employee ID, Publication ID, and Author Order are required")
       /\ UNCHANGED db
    \/ \E e \in EmpIds, p \in PubInputs, o \in OrderInputs, d \in DeptOverrides,
          n \in NameOverrides :
         /\ o = -1 => d = 0
         /\ d = 0 \/ n = 0     \* the bodies tried override one field at most,
         /\ o = 1 \/ n = 0     \* and the name with order 1 only
         /\ AuthorIdFree
         /\ Begin(r, [NoReq EXCEPT !.op = "assign", !.employee_id = e,
                                   !.publication_id = p, !.author_order = o,
                                   !.department = d, !.author_name = n])
         /\ Goto(r, "as_template")
         /\ UNCHANGED <<db, loc>>

\* a lookup that ignores the employee_id of the request
TemplatesOfAnyEmployee(e) ==
    {a \in authors : a.publication_id = 0 /\ a.isActive}

\* Author.findOne({ employee_id, publication_id: null, isActive: true })
Templates(e) ==
    {a \in authors : a.employee_id = e /\ a.publication_id = 0 /\ a.isActive}

AssignTemplate(r) ==
    /\ At(r, "as_template")
    /\ IF Templates(req[r].employee_id) = {}
       THEN Reply(r, 404, "Author not found or not registered. Please register the author first.")
       ELSE \E t \in Templates(req[r].employee_id) :
              /\ Continue(r, "as_publication")
              /\ loc' = [loc EXCEPT ![r].found = t.id,
                                    ![r].department = t.department,
                                    ![r].author_name = t.author_name,
                                    ![r].password = t.password]
    /\ UNCHANGED db

\* Publication.findById(publication_id)
AssignPublication(r) ==
    /\ At(r, "as_publication")
    /\ IF ~PubExists(req[r].publication_id)
       THEN Reply(r, 404, "Publication not found")
       ELSE Continue(r, "as_assignment") /\ UNCHANGED loc
    /\ UNCHANGED db

\* Author.findOne({ employee_id, publication_id, isActive: true })
ExistingAssignment(e, p) ==
    \E a \in authors : a.employee_id = e /\ a.publication_id = p /\ a.isActive

AssignAssignment(r) ==
    /\ At(r, "as_assignment")
    /\ IF ExistingAssignment(req[r].employee_id, req[r].publication_id)
       THEN Reply(r, 400, "Author is already assigned to this publication")
       ELSE Continue(r, "as_order") /\ UNCHANGED loc
    /\ UNCHANGED db

\* a handler without the order pre-check
ExistingOrderUnchecked(p, o) == FALSE

\* Author.findOne({ publication_id, author_order, isActive: true })
ExistingOrder(p, o) ==
    \E a \in authors : a.publication_id = p /\ a.author_order = o /\ a.isActive

\* the order pre-check, then the check that author_order is a positive integer
AssignOrder(r) ==
    /\ At(r, "as_order")
    /\ IF ExistingOrder(req[r].publication_id, req[r].author_order)
       THEN Reply(r, 400, "Author order N is already taken for this publication")
       ELSE IF req[r].author_order < 1
       THEN Reply(r, 400, "Author order must be a positive integer starting from 1")
       ELSE Continue(r, "as_save") /\ UNCHANGED loc
    /\ UNCHANGED db

\* a document that takes every field from the unassigned record
AssignmentDocOfTemplate(r) ==
    [AuthorDoc(nextAuthorId, req[r].employee_id, req[r].publication_id,
               req[r].author_order, loc[r].department)
       EXCEPT !.author_name = loc[r].author_name, !.password = loc[r].password]

\* the document built from the unassigned record and the request body:
\* author_name || existingAuthor.author_name, existingAuthor.password,
\* department || existingAuthor.department
AssignmentDoc(r) ==
    [AuthorDoc(nextAuthorId, req[r].employee_id, req[r].publication_id,
               req[r].author_order,
               IF req[r].department # 0 THEN req[r].department
               ELSE loc[r].department)
       EXCEPT !.author_name = IF req[r].author_name # 0 THEN req[r].author_name
                              ELSE loc[r].author_name,
              !.password = loc[r].password]

\* the rejection of an insert by the unique indexes
SaveRejected(doc) == ViolatedIndexes(doc) # {}

\* authorAssignment.save(): the insert under the unique partial indexes; a
\* rejected insert throws the duplicate-key error the catch block answers
AssignSave(r) ==
    /\ At(r, "as_save")
    /\ IF SaveRejected(AssignmentDoc(r))
       THEN /\ \E keyPattern \in ViolatedIndexes(AssignmentDoc(r)) :
                 Reply(r, 400, DupKeyMessage(keyPattern))
            /\ UNCHANGED db
       ELSE /\ authors' = authors \cup {AssignmentDoc(r)}
            /\ nextAuthorId' = nextAuthorId + 1
            /\ Continue(r, "as_hookCount")
            /\ UNCHANGED <<loc, pubs, departments, nextPubId>>

\* post("save"): this.constructor.countDocuments({ publication_id })
AssignHookCount(r) ==
    /\ At(r, "as_hookCount")
    /\ loc' = [loc EXCEPT ![r].count = CountDocuments(req[r].publication_id)]
    /\ Continue(r, "as_hookWrite")
    /\ UNCHANGED db

\* post("save"): Publication.findByIdAndUpdate(publication_id, { coAuthorCount }),
\* after which save() resolves and the handler answers
AssignHookWrite(r) ==
    /\ At(r, "as_hookWrite")
    /\ pubs' = SetCoAuthorCount(req[r].publication_id, loc[r].count)
    /\ Respond(r, 201, "Author assigned to publication successfully")
    /\ UNCHANGED <<authors, departments, nextAuthorId, nextPubId, req>>

\* ---- removeAssignment ------------------------------------------------
\* Author.findOneAndDelete of one assignment record
RemoveAssignmentStart(r) ==
    \E a \in authors :
      /\ a.publication_id # 0
      /\ Begin(r, [NoReq EXCEPT !.op = "removeAssignment", !.author_id = a.id,
                                !.publication_id = a.publication_id])
      /\ authors' = authors \ {a}
      /\ Goto(r, "rm_hookCount")
      /\ UNCHANGED <<loc, pubs, departments, nextAuthorId, nextPubId>>

\* post("findOneAndDelete"): doc.constructor.countDocuments({ publication_id })
RemoveHookCount(r) ==
    /\ At(r, "rm_hookCount")
    /\ loc' = [loc EXCEPT ![r].count = CountDocuments(req[r].publication_id)]
    /\ Continue(r, "rm_hookWrite")
    /\ UNCHANGED db

\* a hook that also closes the gap the removed record leaves in the orders
RemoveHookWriteRenumbering(r) ==
    /\ At(r, "rm_hookWrite")
    /\ pubs' = SetCoAuthorCount(req[r].publication_id, loc[r].count)
    /\ authors' = {IF a.publication_id = req[r].publication_id
                   THEN [a EXCEPT !.author_order =
                           Cardinality({b \in authors :
                                          /\ b.publication_id = a.publication_id
                                          /\ b.author_order <= a.author_order})]
                   ELSE a : a \in authors}
    /\ Respond(r, 200, "Assignment removed")
    /\ UNCHANGED <<departments, nextAuthorId, nextPubId, req>>

\* post("findOneAndDelete"): Publication.findByIdAndUpdate(..., { coAuthorCount })
RemoveHookWrite(r) ==
    /\ At(r, "rm_hookWrite")
    /\ pubs' = SetCoAuthorCount(req[r].publication_id, loc[r].count)
    /\ Respond(r, 200, "Assignment removed")
    /\ UNCHANGED <<authors, departments, nextAuthorId, nextPubId, req>>

\* ---- deleteUnassignedAuthor ------------------------------------------
DeleteUnassignedAuthorStart(r) ==
    \E e \in EmpIds :
      /\ Begin(r, [NoReq EXCEPT !.op = "deleteUnassignedAuthor", !.employee_id = e])
      /\ Goto(r, "du_find")
      /\ UNCHANGED <<db, loc>>

\* Author.findOne({ employee_id, publication_id: null })
DeleteUnassignedAuthorFind(r) ==
    /\ At(r, "du_find")
    /\ LET unassigned == {a \in authors : /\ a.employee_id = req[r].employee_id
                                          /\ a.publication_id = 0}
       IN IF unassigned = {}
          THEN Reply(r, 404, "Unassigned author not found")
          ELSE \E a \in unassigned :
                 /\ Continue(r, "du_count")
                 /\ loc' = [loc EXCEPT ![r].found = a.id]
    /\ UNCHANGED db

\* a handler without the count of the employee's assignments
HasAssignmentsUnchecked(e) == 0

\* Author.countDocuments({ employee_id, publication_id: { $ne: null } })
HasAssignments(e) ==
    Cardinality({a \in authors : a.employee_id = e /\ a.publication_id # 0})

DeleteUnassignedAuthorCount(r) ==
    /\ At(r, "du_count")
    /\ IF HasAssignments(req[r].employee_id) > 0
       THEN Reply(r, 400, "Cannot delete author with existing publication assignments. Remove assignments first.")
       ELSE Continue(r, "du_delete") /\ UNCHANGED loc
    /\ UNCHANGED db

\* Author.findByIdAndDelete(author._id); the post hook skips an unassigned doc
DeleteUnassignedAuthorDelete(r) ==
    /\ At(r, "du_delete")
    /\ authors' = {a \in authors : a.id # loc[r].found}
    /\ Reply(r, 200, "Unassigned author deleted successfully")
    /\ UNCHANGED <<pubs, departments, nextAuthorId, nextPubId>>

\* ---- deleteDepartment ------------------------------------------------
DeleteDepartmentStart(r) ==
    \E d \in DeptIds :
      /\ Begin(r, [NoReq EXCEPT !.op = "deleteDepartment", !.department = d])
      /\ Goto(r, "dd_find")
      /\ UNCHANGED <<db, loc>>

\* Department.findById(department_id)
DeleteDepartmentFind(r) ==
    /\ At(r, "dd_find")
    /\ IF ~DepartmentExists(req[r].department)
       THEN Reply(r, 404, "Department not found")
       ELSE Continue(r, "dd_authors") /\ UNCHANGED loc
    /\ UNCHANGED db

\* Author.countDocuments({ department })
DeleteDepartmentAuthors(r) ==
    /\ At(r, "dd_authors")
    /\ loc' = [loc EXCEPT ![r].count =
                 Cardinality({a \in authors : a.department = req[r].department})]
    /\ Continue(r, "dd_publications")
    /\ UNCHANGED db

\* Publication.countDocuments({ department }), then the check of both counts
DeleteDepartmentPublications(r) ==
    /\ At(r, "dd_publications")
    /\ LET publicationsCount ==
             Cardinality({x \in pubs : x.department = req[r].department})
       IN IF loc[r].count > 0 \/ publicationsCount > 0
          THEN Reply(r, 400, "Cannot delete department with associated authors or publications")
          ELSE Continue(r, "dd_delete") /\ UNCHANGED loc
    /\ UNCHANGED db

\* Department.findByIdAndDelete(department_id)
DeleteDepartmentDelete(r) ==
    /\ At(r, "dd_delete")
    /\ departments' = {d \in departments : d.id # req[r].department}
    /\ Reply(r, 200, "Department deleted successfully")
    /\ UNCHANGED <<authors, pubs, nextAuthorId, nextPubId>>

\* ---- the response has been sent; the slot takes the next request, whose
\* ---- staged file is another file
Finish(r) ==
    /\ pc[r] = "done"
    /\ UNCHANGED <<received, reads>>
    /\ staged' = [staged EXCEPT ![r] = FALSE]
    /\ pc' = [pc EXCEPT ![r] = "idle"]
    /\ req' = [req EXCEPT ![r] = NoReq]
    /\ resp' = [resp EXCEPT ![r] = NoResp]
    /\ UNCHANGED <<db, loc>>

Step(r) ==
    \/ RegisterAuthorStart(r)
    \/ RegisterAuthorFind(r)
    \/ RegisterAuthorDepartment(r)
    \/ RegisterAuthorSave(r)
    \/ RegisterPublicationStart(r)
    \/ RegisterPublicationUpload(r)
    \/ RegisterPublicationSave(r)
    \/ AssignStart(r)
    \/ AssignTemplate(r)
    \/ AssignPublication(r)
    \/ AssignAssignment(r)
    \/ AssignOrder(r)
    \/ AssignSave(r)
    \/ AssignHookCount(r)
    \/ AssignHookWrite(r)
    \/ RemoveAssignmentStart(r)
    \/ RemoveHookCount(r)
    \/ RemoveHookWrite(r)
    \/ DeleteUnassignedAuthorStart(r)
    \/ DeleteUnassignedAuthorFind(r)
    \/ DeleteUnassignedAuthorCount(r)
    \/ DeleteUnassignedAuthorDelete(r)
    \/ DeleteDepartmentStart(r)
    \/ DeleteDepartmentFind(r)
    \/ DeleteDepartmentAuthors(r)
    \/ DeleteDepartmentPublications(r)
    \/ DeleteDepartmentDelete(r)
    \/ Finish(r)

\* requests are served concurrently
Next == \E r \in Reqs : Step(r)

Spec == InitSeeded /\ [][Next]_vars

\* requests are served one after the other: each is received when no other is in
\* flight, so that only the first slot is ever taken
NextSeq == \E r \in {1} : Step(r)

SpecSeq == Init /\ [][NextSeq]_vars

\* ======================================================================
\* Listing and search (controllers/privateData.controller.js)
\* ======================================================================
\* Strings that a search matches or a sort compares are sequences of
\* character codes; a Date is a number.
MaxUsers == 4           \* User documents of the collection
MaxLimit == 100         \* the cap of limit

Min(a, b) == IF a < b THEN a ELSE b
Max(a, b) == IF a > b THEN a ELSE b

\* String.prototype.toLowerCase on the codes of A-Z
ToLower(str) == [i \in 1..Len(str) |-> IF str[i] \in 65..90 THEN str[i] + 32 ELSE str[i]]

\* { $regex: fragment, $options: "i" } for a fragment of letters and digits:
\* the value contains the fragment, case ignored
RegexMatchI(fragment, value) ==
    \E k \in 0..(Len(value) - Len(fragment)) :
      \A i \in 1..Len(fragment) : ToLower(value)[k + i] = ToLower(fragment)[i]

\* the comparison of two strings in a sort
StrLess(x, y) ==
    \E k \in 1..(Min(Len(x), Len(y)) + 1) :
      /\ \A i \in 1..(k - 1) : x[i] = y[i]
      /\ IF k > Len(x) THEN k <= Len(y)
         ELSE k <= Len(y) /\ x[k] < y[k]

\* the fields whose values are strings
StringFields == {"fullname", "email", "employee_id", "title", "authorName"}

\* a strictly before b under .sort({ [field]: sortOrder }); a missing field
\* sorts as null
SortsBefore(a, b, field, sortOrder) ==
    IF field \notin DOMAIN a THEN FALSE
    ELSE LET less(x, y) == IF field \in StringFields THEN StrLess(x, y) ELSE x < y
         IN IF sortOrder = 1 THEN less(a[field], b[field])
            ELSE less(b[field], a[field])

\* the orders in which a query can return its documents: the sort fixes the
\* order of documents with different keys and leaves the order of documents
\* with equal keys to the server, which may differ from one query to the next
RECURSIVE SortedOrders(_, _, _)
SortedOrders(docs, field, sortOrder) ==
    IF docs = {} THEN {<<>>}
    ELSE UNION {{<<a>> \o rest : rest \in SortedOrders(docs \ {a}, field, sortOrder)} :
                a \in {d \in docs : \A b \in docs : ~SortsBefore(b, d, field, sortOrder)}}

\* skip = (page - 1) * limit
Skip(page, limit) == (page - 1) * limit

\* .skip(skip).limit(limit) of an ordered result
SkipLimit(seq, skip, limit) ==
    LET last == Min(skip + limit, Len(seq))
    IN IF last <= skip THEN <<>>
       ELSE [i \in 1..(last - skip) |-> seq[skip + i]]

\* Math.ceil(total / limit)
Ceil(total, limit) == (total + limit - 1) \div limit

\* a projection that excludes nothing
SelectAll(doc, excluded) == doc

\* .select("-field"): the document without the excluded fields
Select(doc, excluded) == [f \in DOMAIN doc \ excluded |-> doc[f]]

\* const sortOrder = order === "asc" ? 1 : -1
SortOrder(order) == IF order = "asc" THEN 1 ELSE -1

\* ---- the User collection ---------------------------------------------
\* the i-th User document: its strings as character codes ("Gu1", "bo2",
\* ...; "gur1", "GUR2", "b3", ...), the later document created earlier,
\* two documents updated at the same time
UserDoc(i) ==
    [id |-> i,
     employee_id |-> <<69, 48 + i>>,
     fullname |-> IF i % 2 = 1 THEN <<71, 117, 48 + i>> ELSE <<98, 111, 48 + i>>,
     email |-> IF i % 3 = 1 THEN <<103, 117, 114, 48 + i>>
               ELSE IF i % 3 = 2 THEN <<71, 85, 82, 48 + i>>
               ELSE <<98, 48 + i>>,
     password |-> <<112, 119, 48 + i>>,
     createdAt |-> MaxUsers + 1 - i,
     updatedAt |-> (i + 1) \div 2]

\* the inputs of the query string
PageInputs == 0..MaxUsers
LimitInputs == {0, 1, 2, 3, MaxLimit, MaxLimit + 1}
UserSortInputs == {"createdAt", "updatedAt", "email", "password"}
OrderInputs2 == {"asc", "desc"}
Fragments == {<<>>, <<103, 117>>, <<85>>, <<50>>, <<122>>}

\* const allowedSortFields = [...]
AllowedSortFields == {"createdAt", "updatedAt", "fullname", "email", "employee_id"}

\* allowedSortFields.includes(sortBy) ? sortBy : "createdAt"
SortField(sortBy) == IF sortBy \in AllowedSortFields THEN sortBy ELSE "createdAt"

\* Math.max(1, parseInt(page))
PageNum(page) == Max(1, page)

\* Math.max(1, Math.min(100, parseInt(limit)))
LimitNum(limit) == Max(1, Min(MaxLimit, limit))

\* the 200 responses a User listing over the documents matched can give
UsersPage(matched, q) ==
    LET pageNum == PageNum(q.page)
        limitNum == LimitNum(q.limit)
        sortField == SortField(q.sortBy)
        totalUsers == Cardinality(matched)
        response(found) ==
          [status |-> 200,
           items |-> [i \in 1..Len(found) |-> Select(found[i], {"password"})],
           sortedBy |-> sortField,
           currentPage |-> pageNum,
           totalPages |-> Ceil(totalUsers, limitNum),
           totalCount |-> totalUsers,
           hasNextPage |-> pageNum < Ceil(totalUsers, limitNum),
           hasPrevPage |-> pageNum > 1]
    IN {response(SkipLimit(sorted, Skip(pageNum, limitNum), limitNum)) :
          sorted \in SortedOrders(matched, sortField, SortOrder(q.order))}

\* a listing or search request is answered in one step with one of the
\* responses it can give: the collection does not change between its count
\* and its find. A client that asked for page 1 keeps the pages it is given.
Answer(request, responses) ==
    /\ query = NoQuery
    /\ query' = request
    /\ result' \in responses
    /\ fetched' = IF result'.status = 200 /\ result'.currentPage = 1
                  THEN <<result'.items>> ELSE <<>>
    /\ UNCHANGED <<db, users, pc, req, loc, resp, received, staged, auth>>

\* GET /private-data/users
GetUsersWithPagination ==
    \E page \in PageInputs, limit \in LimitInputs, sortBy \in UserSortInputs,
       order \in OrderInputs2 :
      LET q == [op |-> "getUsersWithPagination", page |-> page, limit |-> limit,
                sortBy |-> sortBy, order |-> order]
      IN Answer(q, UsersPage(users, q))

\* GET /private-data/users: the client asks for the page after the one it was
\* given, all else the same
GetUsersWithPaginationNext ==
    /\ query.op = "getUsersWithPagination"
    /\ fetched # <<>>
    /\ result.hasNextPage
    /\ query' = [query EXCEPT !.page = result.currentPage + 1]
    /\ result' \in UsersPage(users, query')
    /\ fetched' = Append(fetched, result'.items)
    /\ UNCHANGED <<db, users, pc, req, loc, resp, received, staged, auth>>

\* the search of the User collection by a fragment of one field
SearchUsers(op, field, message) ==
    \E fragment \in Fragments, page \in PageInputs, limit \in LimitInputs,
       sortBy \in UserSortInputs, order \in OrderInputs2 :
      LET q == [op |-> op, fragment |-> fragment, page |-> page, limit |-> limit,
                sortBy |-> sortBy, order |-> order]
      IN IF fragment = <<>>
         THEN Answer(q, {[status |-> 400, message |-> message]})
         ELSE Answer(q, UsersPage({u \in users : RegexMatchI(fragment, u[field])}, q))

\* GET /private-data/search/fullname
SearchUserWithFullName ==
    SearchUsers("searchUserWithFullName", "fullname", "Full name is required for search")

\* GET /private-data/search/email
SearchUserWithEmail ==
    SearchUsers("searchUserWithEmail", "email", "Email is required for search")

\* GET /private-data/search/employee-id
SearchUserWithEmployeeId ==
    SearchUsers("searchUserWithEmployeeId", "employee_id",
                "Employee ID is required for search")

\* the response is sent
SendResponse ==
    /\ query # NoQuery
    /\ query' = NoQuery
    /\ result' = NoResult
    /\ fetched' = <<>>
    /\ UNCHANGED <<db, users, pc, req, loc, resp, received, staged, auth>>

\* the User collection holds the first n documents
InitUsers ==
    /\ \E n \in 0..MaxUsers : users = {UserDoc(i) : i \in 1..n}
    /\ authors = {}
    /\ pubs = {}
    /\ departments = SeededDepartmentDocs
    /\ nextAuthorId = 1
    /\ nextPubId = 1
    /\ InitRequests
    /\ received = 0

NextUsers ==
    \/ GetUsersWithPagination
    \/ GetUsersWithPaginationNext
    \/ SearchUserWithFullName
    \/ SearchUserWithEmail
    \/ SearchUserWithEmployeeId
    \/ SendResponse

SpecUsers == InitUsers /\ [][NextUsers]_vars

\* ---- the Publication collection as the searches read it ----------------
MaxPublications == 3    \* Publication documents of the collection

\* an instant: three units to the month, so that a time zone moves local
\* midnight by one unit
\* new Date(`${year}-01-01`): midnight UTC of 1 January
UtcStartOfYear(year) == 3 * 12 * year

\* new Date(yearNum, monthNum - 1, 1): midnight of the first of the month in
\* the time zone of the server, which is tz units ahead of UTC
LocalDate(yearNum, monthNum, tz) == 3 * (12 * yearNum + monthNum - 1) - tz

\* the time zones a server can run in: behind UTC, UTC, ahead of UTC
TimeZones == {-1, 0, 1}

\* the i-th Publication document ("P1" by "Gu" of December 2023, "P2" by "bo"
\* of January 2024, ...), saved by a server in time zone tz
StoredPublication(i, tz) ==
    [id |-> i,
     title |-> <<80, 48 + i>>,
     authorName |-> IF i % 2 = 1 THEN <<71, 117>> ELSE <<98, 111>>,
     publicationYear |-> 2023 + (i \div 2),
     publicationMonth |-> IF i % 2 = 1 THEN 12 ELSE 1,
     publication_date |-> LocalDate(2023 + (i \div 2), IF i % 2 = 1 THEN 12 ELSE 1, tz),
     department |-> 1 + (i % 2),
     keywords |-> IF i % 2 = 1 THEN {<<97, 105>>} ELSE {<<109, 108>>},
     coAuthorCount |-> 1]

\* the Author document of the i-th publication ("Gur" for the first two)
PublicationAuthor(i) ==
    [id |-> i,
     publication_id |-> i,
     fullname |-> IF i <= 2 THEN <<71, 117, 114>> ELSE <<98, 111, 98>>,
     email |-> <<97 + i, 64, 120>>,
     author_order |-> 1]

\* the inputs of the query string; 0 and <<>> stand for a parameter left out
PubPageInputs == 0..2
PubLimitInputs == {0, 1, 2}
PubSortInputs == {"publication_date", "title", "createdBy"}
TextInputs == {<<>>, <<80>>}
AuthorInputs == {<<>>, <<103, 117>>}
YearInputs == {0, 2023, 2024}
DepartmentInputs == {0, 1}
KeywordInputs == {{}, {<<65, 73>>}}

\* $lookup from authors on publication_id
Lookup(p) == {a \in authors : a.publication_id = p.id}

\* authors: { $elemMatch: { $or: [fullname regex, email regex] } }
AuthorsMatch(p, fragment) ==
    \E a \in Lookup(p) : RegexMatchI(fragment, a.fullname) \/ RegexMatchI(fragment, a.email)

\* the $match of searchByAuthor and getAuthorSearchCount of the schema with
\* authorName
AuthorNameOrAuthorsMatch(p, fragment) ==
    RegexMatchI(fragment, p.authorName) \/ AuthorsMatch(p, fragment)

\* publication_date: { $gte: new Date(`${year}-01-01`), $lt: new Date(`${year + 1}-01-01`) }
InYearRange(p, year) ==
    /\ p.publication_date >= UtcStartOfYear(year)
    /\ p.publication_date < UtcStartOfYear(year + 1)

\* the pages .sort().skip().limit() of a find can return: limit(0) is no limit
FindPages(matched, sortBy, sortOrder, page, limit) ==
    {SkipLimit(sorted, Skip(page, limit), IF limit = 0 THEN Cardinality(matched) ELSE limit) :
       sorted \in SortedOrders(matched, sortBy, sortOrder)}

\* the server rejects a negative skip, and a $limit that is not positive
FindFails(page, limit) == Skip(page, limit) < 0 \/ limit < 0
AggregateFails(page, limit) == Skip(page, limit) < 0 \/ limit < 1

\* GET /publications
GetPublicationsPagination ==
    \E page \in PubPageInputs, limit \in PubLimitInputs, sortBy \in PubSortInputs,
       order \in OrderInputs2 :
      LET q == [op |-> "getPublicationsPagination", page |-> page, limit |-> limit,
                sortBy |-> sortBy, order |-> order]
      IN IF sortBy \notin {"publication_date", "title", "coAuthorCount"}
         THEN Answer(q, {[status |-> 400, message |-> "Invalid sort field"]})
         ELSE IF FindFails(page, limit)
         THEN Answer(q, {[status |-> 500, message |-> "Error fetching publications"]})
         ELSE Answer(q, {[status |-> 200, items |-> found, sortedBy |-> sortBy,
                          currentPage |-> page] :
                         found \in FindPages(pubs, sortBy, SortOrder(order), page, limit)})

\* Publication.advancedSearch(searchOptions) without a text query: the
\* documents that pass the filters given
AdvancedSearchMatch(q) ==
    {p \in pubs :
       /\ q.year # 0 => InYearRange(p, q.year)
       /\ q.department # 0 => p.department = q.department
       /\ q.keywords # {} =>
            \E keyword \in q.keywords, k \in p.keywords : RegexMatchI(keyword, k)
       /\ q.author # <<>> => AuthorsMatch(p, q.author)}

\* Publication.getAuthorSearchCount(author) of the schema with advancedSearch
GetAuthorSearchCount(author) == Cardinality({p \in pubs : AuthorsMatch(p, author)})

\* the totalCount of searchPublications for the page of publications found
SearchTotalCount(q, publications) ==
    IF q.author # <<>> THEN GetAuthorSearchCount(q.author) ELSE Len(publications)

\* GET /publications/search
SearchPublications ==
    \E text \in TextInputs, author \in AuthorInputs, year \in YearInputs,
       department \in DepartmentInputs, keywords \in KeywordInputs,
       page \in PubPageInputs, limit \in PubLimitInputs, order \in OrderInputs2 :
      LET q == [op |-> "searchPublications", text |-> text, author |-> author,
                year |-> year, department |-> department, keywords |-> keywords,
                page |-> page, limit |-> limit, sortBy |-> "publication_date",
                order |-> order]
          response(found) ==
            LET totalCount == SearchTotalCount(q, found)
            IN [status |-> 200, items |-> found, sortedBy |-> q.sortBy,
                currentPage |-> page,
                totalPages |-> Ceil(totalCount, limit),
                totalCount |-> totalCount,
                hasNextPage |-> page < Ceil(totalCount, limit),
                hasPrevPage |-> page > 1]
      IN \* the pipeline puts $addFields of the text score before the $match
         \* with $text, which the server rejects
         IF text # <<>> \/ AggregateFails(page, limit)
         THEN Answer(q, {[status |-> 500, message |-> "Error searching publications"]})
         ELSE Answer(q, {response(SkipLimit(sorted, Skip(page, limit), limit)) :
                         sorted \in SortedOrders(AdvancedSearchMatch(q), q.sortBy,
                                                 SortOrder(order))})

\* GET /publications/author-search
SearchByAuthor ==
    \E author \in AuthorInputs, page \in PubPageInputs, limit \in PubLimitInputs,
       sortBy \in PubSortInputs, order \in OrderInputs2 :
      LET q == [op |-> "searchByAuthor", author |-> author, page |-> page,
                limit |-> limit, sortBy |-> sortBy, order |-> order]
          matched == {p \in pubs : AuthorNameOrAuthorsMatch(p, author)}
          totalCount == Cardinality(matched)
      IN IF author = <<>>
         THEN Answer(q, {[status |-> 400, message |-> "Author query is required"]})
         ELSE IF AggregateFails(page, limit)
         THEN Answer(q, {[status |-> 500, message |-> "Error searching by author"]})
         ELSE Answer(q, {[status |-> 200,
                          items |-> SkipLimit(sorted, Skip(page, limit), limit),
                          sortedBy |-> sortBy,
                          currentPage |-> page,
                          totalPages |-> Ceil(totalCount, limit),
                          totalCount |-> totalCount,
                          hasNextPage |-> page < Ceil(totalCount, limit),
                          hasPrevPage |-> page > 1] :
                         sorted \in SortedOrders(matched, sortBy, SortOrder(order))})

\* getPublicationsByYear / getPublicationCountByYear on the date alone
ByYear(p, year) == InYearRange(p, year)

\* getPublicationsByYear / getPublicationCountByYear of the schema with
\* publicationYear: $or of the date range and { publicationYear: year.toString() }
ByYearOrPublicationYear(p, year) == InYearRange(p, year) \/ p.publicationYear = year

\* the search of publications by year with the statics of one of the two
\* schemas
SearchByYear(op, withPublicationYear) ==
    \E year \in YearInputs, page \in PubPageInputs, limit \in PubLimitInputs,
       order \in OrderInputs2 :
      LET q == [op |-> op, year |-> year, page |-> page, limit |-> limit,
                sortBy |-> "publication_date", order |-> order]
          matched == {p \in pubs : IF withPublicationYear
                                    THEN ByYearOrPublicationYear(p, year)
                                    ELSE ByYear(p, year)}
          totalCount == Cardinality(matched)
      IN IF year = 0
         THEN Answer(q, {[status |-> 400, message |-> "Year parameter is required"]})
         ELSE IF page < 1 \/ limit < 1 \/ limit > MaxLimit
         THEN Answer(q, {[status |-> 400, message |-> "Invalid pagination parameters"]})
         ELSE Answer(q, {[status |-> 200, items |-> found, sortedBy |-> q.sortBy,
                          currentPage |-> page,
                          totalPages |-> Ceil(totalCount, limit),
                          totalCount |-> totalCount,
                          hasNextPage |-> page < Ceil(totalCount, limit),
                          hasPrevPage |-> page > 1] :
                         found \in FindPages(matched, q.sortBy, SortOrder(order), page, limit)})

\* GET /publications/search?year= over the schema without publicationYear
SearchPublicationsByYear == SearchByYear("getPublicationsByYear", FALSE)

\* GET /publications/search?year= over the schema with publicationYear
SearchPublicationsByPublicationYear ==
    SearchByYear("getPublicationsByPublicationYear", TRUE)

\* the Publication collection holds the first n documents, saved by a server
\* in one time zone, each with its Author document
InitPublications ==
    /\ \E n \in 0..MaxPublications, tz \in TimeZones :
         /\ pubs = {StoredPublication(i, tz) : i \in 1..n}
         /\ authors = {PublicationAuthor(i) : i \in 1..n}
    /\ users = {}
    /\ departments = SeededDepartmentDocs
    /\ nextAuthorId = 1
    /\ nextPubId = 1
    /\ InitRequests
    /\ received = 0

NextPublications ==
    \/ GetPublicationsPagination
    \/ SearchPublications
    \/ SearchByAuthor
    \/ SearchPublicationsByYear
    \/ SearchPublicationsByPublicationYear
    \/ SendResponse

SpecPublications == InitPublications /\ [][NextPublications]_vars

\* ======================================================================
\* Sessions: loginAdmin, logoutAdmin (controllers/user.controller.js) and the
\* gates requireAuthentication, requireAdmin (middlewares/auth.middleware.js)
\* ======================================================================
\* express-session keeps req.session per request: it loads the session of the
\* cookie from the store when the request arrives and, when the response ends,
\* saves it if the request modified it (resave: false). connect-mongo saves by
\* upsert.
MaxAdmins == 2          \* Admin documents of the collection

\* the i-th Admin document; email and password are numbers
AdminDoc(i) ==
    [id |-> i, email |-> i, password |-> i,
     role |-> <<"admin", "moderator", "super-admin">>[((i - 1) % 3) + 1],
     isActive |-> TRUE]

\* the bodies of a login request: 0 for a field left out, -1 for an email that
\* is no email address, MaxAdmins + 1 for an email no Admin has
EmailInputs == -1..(MaxAdmins + 1)
PasswordInputs == 0..MaxAdmins

NoAuthReq == NoReq
NoAuthLoc == NoLoc

\* Admin.findOne({ email })
FindOne(email) ==
    IF \E a \in admins : a.email = email
    THEN CHOOSE a \in admins : a.email = email
    ELSE NoAdmin

\* Admin.findById(userId)
FindById(userId) ==
    IF \E a \in admins : a.id = userId
    THEN CHOOSE a \in admins : a.id = userId
    ELSE NoAdmin

\* the session of the cookie as the request finds it: the stored one, or a new
\* session that is not in the store
LoadSession(sid) ==
    IF sid # 0 /\ store[sid] # 0
    THEN [id |-> sid, userId |-> store[sid], modified |-> FALSE]
    ELSE NoSess

\* req.session.destroy(): the session leaves the store
Destroy(session) ==
    [sid \in 1..MaxSessions |-> IF sid = session.id THEN 0 ELSE store[sid]]

\* the response ends: a modified session is saved under its id, an unmodified
\* one is only touched
SaveAtEnd(session) ==
    [sid \in 1..MaxSessions |->
       IF sid = session.id /\ session.modified THEN session.userId ELSE store[sid]]

\* a request arrives and takes the lowest free slot, with the cookie of a
\* session id handed out before, or with none
Arrive(r, request) ==
    /\ pc[r] = "idle"
    /\ \A s \in Reqs : s < r => pc[s] # "idle"
    /\ received < MaxRequests
    /\ received' = received + 1
    /\ req' = [req EXCEPT ![r] = request]
    /\ sess' = [sess EXCEPT ![r] = LoadSession(request.sid)]

\* res.status(status).json({ message }): the handler returns and its
\* variables are dropped
Answered(r, status, message) ==
    /\ pc' = [pc EXCEPT ![r] = "done"]
    /\ resp' = [resp EXCEPT ![r] = [status |-> status, message |-> message]]
    /\ loc' = [loc EXCEPT ![r] = NoAuthLoc]

\* what the session handlers leave alone
others == <<db, staged, users, query, result, fetched>>

\* a login that accepts any password
PasswordUnchecked(admin, password) == TRUE

\* const isPasswordValid = admin.password === password
IsPasswordValid(admin, password) == admin.password = password

\* loginAdmin: the checks of the body, then await Admin.findOne
LoginAdminStart(r) ==
    \E sid \in 0..(nextSid - 1), email \in EmailInputs, password \in PasswordInputs :
      /\ Arrive(r, [NoAuthReq EXCEPT !.op = "loginAdmin", !.sid = sid,
                                     !.email = email, !.password = password])
      /\ IF email = 0 \/ password = 0
         THEN Answered(r, 400, "Email and password are required")
         ELSE IF email < 0
         THEN Answered(r, 400, "Please provide a valid email address")
         ELSE /\ Goto(r, "la_found")
              /\ loc' = [loc EXCEPT ![r].admin = FindOne(email)]
      /\ UNCHANGED <<others, admins, store, nextSid>>

\* loginAdmin: the checks of the Admin found, then req.session.regenerate; the
\* body of the request is not used again
LoginAdminCheck(r) ==
    /\ pc[r] = "la_found"
    /\ UNCHANGED received
    /\ LET admin == loc[r].admin
       IN IF admin = NoAdmin
          THEN Answered(r, 401, "Invalid email or password") /\ UNCHANGED sess
          ELSE IF admin.isActive = FALSE
          THEN /\ Answered(r, 403, "Account is deactivated. Please contact administrator.")
               /\ UNCHANGED sess
          ELSE IF ~IsPasswordValid(admin, req[r].password)
          THEN Answered(r, 401, "Invalid email or password") /\ UNCHANGED sess
          ELSE /\ Goto(r, "la_regenerate")
               /\ sess' = [sess EXCEPT ![r].userId = admin.id, ![r].modified = TRUE]
               /\ UNCHANGED loc
    /\ req' = [req EXCEPT ![r].email = 0, ![r].password = 0]
    /\ UNCHANGED <<others, admins, store, nextSid>>

\* loginAdmin: the callback of regenerate. The store has destroyed the old
\* session and req.session is a new one: it takes the identity and is saved
\* when the response ends. When the store fails to destroy the old session,
\* req.session is a new one all the same and the answer is 500.
LoginAdminRegenerate(r) ==
    /\ pc[r] = "la_regenerate"
    /\ UNCHANGED received
    /\ \/ /\ nextSid <= MaxSessions
          /\ sess' = [sess EXCEPT ![r] = [id |-> nextSid, userId |-> loc[r].admin.id,
                                          modified |-> TRUE]]
          /\ store' = [sid \in 1..MaxSessions |->
                         IF sid = nextSid THEN loc[r].admin.id
                         ELSE IF sid = sess[r].id THEN 0 ELSE store[sid]]
          /\ nextSid' = nextSid + 1
          /\ Answered(r, 200, "Login successful")
       \/ /\ sess' = [sess EXCEPT ![r] = NoSess]
          /\ Answered(r, 500, "Login successful but session error occurred")
          /\ UNCHANGED <<store, nextSid>>
    /\ UNCHANGED <<others, admins, req>>

\* a route behind a gate: the gate finds no userId in the session and answers
\* 401, or awaits Admin.findById
GateStart(r, op, message) ==
    \E sid \in 0..(nextSid - 1) :
      /\ Arrive(r, [NoAuthReq EXCEPT !.op = op, !.sid = sid])
      /\ IF LoadSession(sid).userId = 0
         THEN Answered(r, 401, message)
         ELSE /\ Goto(r, "gate_found")
              /\ loc' = [loc EXCEPT ![r].admin = FindById(LoadSession(sid).userId)]
      /\ UNCHANGED <<others, admins, store, nextSid>>

\* GET /private-data/departments and the other routes behind requireAuthentication
ProtectedRouteStart(r) ==
    GateStart(r, "protectedRoute", "Authentication required. Please log in first.")

\* POST /admin/logout, behind requireAuthentication
LogoutAdminStart(r) ==
    GateStart(r, "logoutAdmin", "Authentication required. Please log in first.")

\* POST /admin/register and the other routes behind requireAdmin
AdminRouteStart(r) ==
    GateStart(r, "adminRoute", "Authentication required. Please log in as an admin first.")

\* registerDepartment: the check of the request body, then await
\* Department.findOne
RegisterDepartmentBody(r) ==
    IF req[r].name = 0 \/ req[r].university = 0
    THEN Answered(r, 400, "Please provide all required fields")
    ELSE Goto(r, "rd_find") /\ UNCHANGED loc

\* requireAuthentication with the Admin found: next() runs the handler of the
\* route; logoutAdmin finds its userId and awaits Admin.findByIdAndUpdate
RequireAuthentication(r) ==
    /\ pc[r] = "gate_found"
    /\ UNCHANGED received
    /\ req[r].op \in {"protectedRoute", "logoutAdmin", "registerDepartment"}
    /\ LET user == loc[r].admin
       IN IF user = NoAdmin
          THEN /\ store' = Destroy(sess[r])
               /\ Answered(r, 401, "Invalid session. Please log in again.")
          ELSE IF user.isActive = FALSE
          THEN /\ store' = Destroy(sess[r])
               /\ Answered(r, 403, "Account is deactivated. Please contact administrator.")
          ELSE /\ IF req[r].op = "registerDepartment"
                  THEN RegisterDepartmentBody(r)
                  ELSE /\ Goto(r, IF req[r].op = "logoutAdmin" THEN "lo_destroy"
                                  ELSE "handler")
                       /\ UNCHANGED loc
               /\ UNCHANGED store
    /\ UNCHANGED <<others, admins, nextSid, sess, req>>

\* user.role === "admin" || user.role === "super-admin"
IsAdminRole(role) == role = "admin" \/ role = "super-admin"

\* requireAdmin with the Admin found: on success it writes lastAccessed into the
\* session and next() runs the handler of the route
RequireAdmin(r) ==
    /\ pc[r] = "gate_found"
    /\ UNCHANGED received
    /\ req[r].op = "adminRoute"
    /\ LET user == loc[r].admin
       IN IF user = NoAdmin
          THEN /\ store' = Destroy(sess[r])
               /\ Answered(r, 404, "User not found. Please log in again.")
               /\ UNCHANGED sess
          ELSE IF ~IsAdminRole(user.role)
          THEN /\ Answered(r, 403, "Access denied. Admin privileges required.")
               /\ UNCHANGED <<store, sess>>
          ELSE IF user.isActive = FALSE
          THEN /\ store' = Destroy(sess[r])
               /\ Answered(r, 403, "Account is deactivated. Please contact administrator.")
               /\ UNCHANGED sess
          ELSE /\ Goto(r, "handler")
               /\ sess' = [sess EXCEPT ![r].modified = TRUE]
               /\ UNCHANGED <<store, loc>>
    /\ UNCHANGED <<others, admins, nextSid, req>>

\* the handler behind the gate answers and the response ends
Handler(r) ==
    /\ pc[r] = "handler"
    /\ UNCHANGED received
    /\ store' = SaveAtEnd(sess[r])
    /\ Answered(r, 200, "OK")
    /\ UNCHANGED <<others, admins, nextSid, sess, req>>

\* logoutAdmin: req.session.destroy and its callback
LogoutAdminDestroy(r) ==
    /\ pc[r] = "lo_destroy"
    /\ UNCHANGED received
    /\ \/ /\ store' = Destroy(sess[r])
          /\ Answered(r, 200, "Logout successful")
       \/ /\ Answered(r, 500, "Error during logout process")
          /\ UNCHANGED store
    /\ UNCHANGED <<others, admins, nextSid, sess, req>>

\* the response has gone out: the slot is free again
FinishSession(r) ==
    /\ pc[r] = "done"
    /\ UNCHANGED received
    /\ pc' = [pc EXCEPT ![r] = "idle"]
    /\ req' = [req EXCEPT ![r] = NoAuthReq]
    /\ loc' = [loc EXCEPT ![r] = NoAuthLoc]
    /\ resp' = [resp EXCEPT ![r] = NoResp]
    /\ sess' = [sess EXCEPT ![r] = NoSess]
    /\ UNCHANGED <<others, admins, store, nextSid>>

\* an Admin is deactivated in the database, not by a request
DeactivateAdmin ==
    \E a \in admins :
      /\ a.isActive
      /\ admins' = (admins \ {a}) \cup {[a EXCEPT !.isActive = FALSE]}
      /\ UNCHANGED <<others, received, store, nextSid, sess, pc, req, loc, resp>>

\* an Admin is deleted in the database, not by a request
DeleteAdmin ==
    \E a \in admins :
      /\ admins' = admins \ {a}
      /\ UNCHANGED <<others, received, store, nextSid, sess, pc, req, loc, resp>>

\* no session yet, or the first Admin logged in with session 1; three more
\* requests are served
InitSessions ==
    /\ admins = {AdminDoc(i) : i \in 1..MaxAdmins}
    /\ \/ store = [sid \in 1..MaxSessions |-> 0] /\ nextSid = 1
       \/ store = [sid \in 1..MaxSessions |-> IF sid = 1 THEN 1 ELSE 0] /\ nextSid = 2
    /\ sess = [r \in Reqs |-> NoSess]
    /\ pc = [r \in Reqs |-> "idle"]
    /\ req = [r \in Reqs |-> NoAuthReq]
    /\ loc = [r \in Reqs |-> NoAuthLoc]
    /\ resp = [r \in Reqs |-> NoResp]
    /\ authors = {}
    /\ pubs = {}
    /\ users = {}
    /\ departments = SeededDepartmentDocs
    /\ nextAuthorId = 1
    /\ nextPubId = 1
    /\ received = MaxRequests - 3
    /\ staged = [r \in Reqs |-> FALSE]
    /\ query = NoQuery
    /\ result = NoResult
    /\ fetched = <<>>

SessionStep(r) ==
    \/ LoginAdminStart(r)
    \/ LoginAdminCheck(r)
    \/ LoginAdminRegenerate(r)
    \/ ProtectedRouteStart(r)
    \/ LogoutAdminStart(r)
    \/ AdminRouteStart(r)
    \/ RequireAuthentication(r)
    \/ RequireAdmin(r)
    \/ Handler(r)
    \/ LogoutAdminDestroy(r)
    \/ FinishSession(r)

NextSessions ==
    \/ \E r \in Reqs : SessionStep(r)
    \/ DeactivateAdmin
    \/ DeleteAdmin

SpecSessions == InitSessions /\ [][NextSessions]_vars

\* ======================================================================
\* The routes of the department and admin records (routes/register.route.js):
\* POST /register/department behind requireAuthentication, POST /delete/admin
\* and POST /delete/department behind no gate
\* ======================================================================
NameInputs == {0, 1, 2}         \* name of the request body (0: absent)
UniversityInputs == {0, 1, 2}   \* university of the request body (0: absent)

\* the Admin of role super-admin
SuperAdmin == AdminDoc(3)

\* what the handlers of the session routes leave alone, but for the departments
othersButDepartments ==
    <<authors, pubs, nextAuthorId, nextPubId, staged, users, query, result, fetched>>

\* router.post("/register/department", requireAuthentication, registerDepartment)
RegisterDepartmentStart(r) ==
    \E sid \in 0..(nextSid - 1), name \in NameInputs, university \in UniversityInputs :
      /\ Arrive(r, [NoReq EXCEPT !.op = "registerDepartment", !.sid = sid,
                                 !.name = name, !.university = university])
      /\ IF LoadSession(sid).userId = 0
         THEN Answered(r, 401, "Authentication required. Please log in first.")
         ELSE /\ Goto(r, "gate_found")
              /\ loc' = [loc EXCEPT ![r].admin = FindById(LoadSession(sid).userId)]
      /\ UNCHANGED <<others, admins, store, nextSid>>

\* Department.findOne({ name, university })
ExistingDepartment(name, university) ==
    \E d \in departments : d.name = name /\ d.university = university

RegisterDepartmentFind(r) ==
    /\ pc[r] = "rd_find"
    /\ UNCHANGED received
    /\ IF ExistingDepartment(req[r].name, req[r].university)
       THEN Answered(r, 400, "Department already exists")
       ELSE Goto(r, "rd_save") /\ UNCHANGED loc
    /\ UNCHANGED <<others, admins, store, nextSid, sess, req>>

\* new Department({ name, university }): the document has no code
NewDepartment(r) == DepartmentDoc(0, req[r].name, 0, req[r].university)

\* the paths of departmentSchema that are required and that doc lacks
MissingRequired(doc) ==
    {path \in {"name", "code", "university"} : doc[path] = 0}

\* the unique indexes of the Department collection (name, code) that
\* inserting doc would violate
ViolatedDepartmentIndexes(doc) ==
    {path \in {"name", "code"} : \E d \in departments : d[path] = doc[path]}

\* the _id of a document inserted now: one that no document had before
NextDepartmentId == Cardinality(SeededDepartments) + received + 1

\* newDepartment.save(): Mongoose validates the document, then MongoDB inserts
\* it under the unique indexes; either failure is thrown and answered 500
RegisterDepartmentSave(r) ==
    /\ pc[r] = "rd_save"
    /\ UNCHANGED received
    /\ IF MissingRequired(NewDepartment(r)) # {}
       THEN /\ Answered(r, 500, "Internal server error")
            /\ UNCHANGED departments
       ELSE IF ViolatedDepartmentIndexes(NewDepartment(r)) # {}
       THEN /\ Answered(r, 500, "Internal server error")
            /\ UNCHANGED departments
       ELSE /\ departments' = departments \cup
                 {[NewDepartment(r) EXCEPT !.id = NextDepartmentId]}
            /\ Answered(r, 201, "Department registered successfully")
    /\ UNCHANGED <<othersButDepartments, admins, store, nextSid, sess, req>>

\* req.params.admin_id of a request to router.post("/delete/admin", deleteAdmin):
\* the path has no :admin_id segment, so req.params is empty whatever Admin the
\* request names
ParamsAdminId(request) == 0

\* deleteAdmin: the checks of req.params, then await Admin.findById
DeleteAdminStart(r) ==
    \E sid \in 0..(nextSid - 1), target \in 0..(MaxAdmins + 1) :
      /\ Arrive(r, [NoReq EXCEPT !.op = "deleteAdmin", !.sid = sid,
                                 !.admin_id = target])
      /\ LET admin_id == ParamsAdminId(req'[r])
         IN IF admin_id = 0
            THEN Answered(r, 400, "Admin ID is required")
            ELSE IF LoadSession(sid).userId = admin_id
            THEN Answered(r, 400, "Cannot delete your own admin account")
            ELSE /\ Goto(r, "da_find")
                 /\ loc' = [loc EXCEPT ![r].found = admin_id]
      /\ UNCHANGED <<others, admins, store, nextSid>>

\* deleteAdmin: the checks of the Admin found, then await
\* Admin.findByIdAndDelete. No request gets here: admin_id is never defined.
DeleteAdminFind(r) ==
    /\ pc[r] = "da_find"
    /\ UNCHANGED received
    /\ LET admin == FindById(loc[r].found)
       IN IF admin = NoAdmin
          THEN Answered(r, 404, "Admin not found")
          ELSE IF admin.role = "super-admin"
          THEN Answered(r, 403, "Cannot delete super-admin account")
          ELSE Goto(r, "da_delete") /\ UNCHANGED loc
    /\ UNCHANGED <<others, admins, store, nextSid, sess, req>>

\* deleteAdmin: Admin.findByIdAndDelete(admin_id). No request gets here.
DeleteAdminFindByIdAndDelete(r) ==
    /\ pc[r] = "da_delete"
    /\ UNCHANGED received
    /\ admins' = {a \in admins : a.id # loc[r].found}
    /\ Answered(r, 200, "Admin deleted successfully")
    /\ UNCHANGED <<others, store, nextSid, sess, req>>

\* the Admin collection holds a super-admin; no session yet, or the first Admin
\* logged in with session 1; three more requests are served
InitRoutes ==
    /\ admins = {AdminDoc(i) : i \in 1..MaxAdmins} \cup {SuperAdmin}
    /\ \/ store = [sid \in 1..MaxSessions |-> 0] /\ nextSid = 1
       \/ store = [sid \in 1..MaxSessions |-> IF sid = 1 THEN 1 ELSE 0] /\ nextSid = 2
    /\ sess = [r \in Reqs |-> NoSess]
    /\ pc = [r \in Reqs |-> "idle"]
    /\ req = [r \in Reqs |-> NoReq]
    /\ loc = [r \in Reqs |-> NoLoc]
    /\ resp = [r \in Reqs |-> NoResp]
    /\ authors = {}
    /\ pubs = {}
    /\ users = {}
    /\ departments = SeededDepartmentDocs
    /\ nextAuthorId = 1
    /\ nextPubId = 1
    /\ received = MaxRequests - 3
    /\ staged = [r \in Reqs |-> FALSE]
    /\ query = NoQuery
    /\ result = NoResult
    /\ fetched = <<>>

\* DeleteAdminFind and DeleteAdminFindByIdAndDelete are left out: DeleteAdminStart
\* never goes on to them
RouteStep(r) ==
    \/ RegisterDepartmentStart(r)
    \/ RequireAuthentication(r)
    \/ RegisterDepartmentFind(r)
    \/ RegisterDepartmentSave(r)
    \/ DeleteAdminStart(r)
    \/ DeleteDepartmentStart(r)
    \/ DeleteDepartmentFind(r)
    \/ DeleteDepartmentAuthors(r)
    \/ DeleteDepartmentPublications(r)
    \/ DeleteDepartmentDelete(r)
    \/ FinishSession(r)

NextRoutes ==
    \/ \E r \in Reqs : RouteStep(r)
    \/ DeactivateAdmin

SpecRoutes == InitRoutes /\ [][NextRoutes]_vars

\* ======================================================================
\* The queries of the Author model (models/author.model.js): the statics
\* getCoAuthors and getPrimaryAuthor and the method getCoAuthors
\* ======================================================================
MaxDocs == 3            \* Author documents of the collection queried

\* the shapes of a document: unassigned, or with an order on a publication, and
\* active or not; NoAuthor for a document the collection lacks
NoAuthor == [publication_id |-> 0, author_order |-> 0, isActive |-> FALSE, absent |-> TRUE]
AuthorShapes ==
    {NoAuthor} \cup
    {[publication_id |-> p, author_order |-> o, isActive |-> active, absent |-> FALSE] :
       p \in 0..MaxPubId, o \in 0..MaxDocs, active \in BOOLEAN}

\* the collections queried: document i, when present, is of employee i; an
\* unassigned document has no author_order and the unique index on
\* (publication_id, author_order) holds
AuthorCollections ==
    {{[AuthorDoc(i, i, shape[i].publication_id, shape[i].author_order, 1)
         EXCEPT !.isActive = shape[i].isActive] :
        i \in {j \in 1..MaxDocs : ~shape[j].absent}} :
     shape \in {f \in [1..MaxDocs -> AuthorShapes] :
                  /\ \A i \in 1..MaxDocs :
                       ~f[i].absent =>
                         (f[i].publication_id = 0) = (f[i].author_order = 0)
                  /\ \A i, j \in 1..MaxDocs :
                       (i # j /\ ~f[i].absent /\ ~f[j].absent
                        /\ f[i].publication_id # 0
                        /\ f[i].publication_id = f[j].publication_id)
                         => f[i].author_order # f[j].author_order}}

\* a query of the model returns value to its caller
Returns(request, values) ==
    /\ query = NoQuery
    /\ query' = request
    /\ result' \in values
    /\ UNCHANGED <<db, users, fetched, pc, req, loc, resp, received, staged, auth>>

\* .select("author_name department author_order employee_id"): the fields
\* named and _id
SelectCoAuthorFields(docs) ==
    [i \in DOMAIN docs |-> Select(docs[i], {"publication_id", "isActive", "password"})]

\* a find without the filter on author_order
CoAuthorsOfAnyOrder(publicationId) ==
    {a \in authors : a.publication_id = publicationId /\ a.isActive}

\* find({ publication_id: publicationId, author_order: { $gt: 1 }, isActive: true })
CoAuthors(publicationId) ==
    {a \in authors : /\ a.publication_id = publicationId
                     /\ a.author_order > 1
                     /\ a.isActive}

\* authorSchema.statics.getCoAuthors
GetCoAuthors ==
    \E publicationId \in 1..MaxPubId :
      Returns([op |-> "statics.getCoAuthors", publication_id |-> publicationId,
               author_id |-> 0],
              {[docs |-> SelectCoAuthorFields(docs)] :
                 docs \in SortedOrders(CoAuthors(publicationId), "author_order", 1)})

\* authorSchema.methods.getCoAuthors, called on a document of the collection
GetCoAuthorsOfAuthor ==
    \E this \in authors :
      Returns([op |-> "methods.getCoAuthors", publication_id |-> this.publication_id,
               author_id |-> this.id],
              IF this.publication_id = 0 THEN {[docs |-> <<>>]}
              ELSE {[docs |-> docs] :
                      docs \in SortedOrders({a \in authors :
                                               /\ a.publication_id = this.publication_id
                                               /\ a.id # this.id
                                               /\ a.isActive},
                                            "author_order", 1)})

\* authorSchema.statics.getPrimaryAuthor: findOne returns a document or null
GetPrimaryAuthor ==
    \E publicationId \in 1..MaxPubId :
      LET found == {a \in authors : /\ a.publication_id = publicationId
                                    /\ a.author_order = 1
                                    /\ a.isActive}
      IN Returns([op |-> "statics.getPrimaryAuthor", publication_id |-> publicationId,
                  author_id |-> 0],
                 IF found = {} THEN {[docs |-> <<>>]}
                 ELSE {[docs |-> <<a>>] : a \in found})

\* the caller has the result
Returned ==
    /\ query # NoQuery
    /\ query' = NoQuery
    /\ result' = NoResult
    /\ UNCHANGED <<db, users, fetched, pc, req, loc, resp, received, staged, auth>>

InitAuthorQueries ==
    /\ authors \in AuthorCollections
    /\ pubs = {}
    /\ users = {}
    /\ departments = SeededDepartmentDocs
    /\ nextAuthorId = MaxDocs + 1
    /\ nextPubId = MaxPubId + 1
    /\ InitRequests
    /\ received = 0

NextAuthorQueries ==
    \/ GetCoAuthors
    \/ GetCoAuthorsOfAuthor
    \/ GetPrimaryAuthor
    \/ Returned

SpecAuthorQueries == InitAuthorQueries /\ [][NextAuthorQueries]_vars

\* ======================================================================
\* Requests racing on a publication that has an assignment
\* ======================================================================
\* the seeded database after the first author has been assigned to the
\* publication with order 1 and the hook has set coAuthorCount
AssignedAuthors == SeededAuthors \cup {AuthorDoc(3, 1, 1, 1, 1)}
AssignedPublications == {PublicationDoc(1, 1, 1, 1, 1)}

\* two more requests are served
InitAssigned ==
    /\ authors = AssignedAuthors
    /\ pubs = AssignedPublications
    /\ nextAuthorId = 4
    /\ nextPubId = 2
    /\ departments = SeededDepartmentDocs
    /\ users = {}
    /\ InitRequests
    /\ received = MaxRequests - 2

\* req.params.publication_id of a request to
\* router.post("/delete/publication", deletePublication): the path has no
\* :publication_id segment, so req.params is empty whatever publication the
\* request names
ParamsPublicationId(request) == 0

\* deletePublication: the check of req.params, then await Publication.findById
DeletePublicationStart(r) ==
    \E p \in PubInputs :
      /\ Begin(r, [NoReq EXCEPT !.op = "deletePublication", !.publication_id = p])
      /\ IF ParamsPublicationId(req'[r]) = 0
         THEN Respond(r, 400, "Publication ID is required")
         ELSE Goto(r, "dp_find") /\ UNCHANGED loc
      /\ UNCHANGED db

\* deletePublication: Publication.findById. No request gets here:
\* publication_id is never defined.
DeletePublicationFind(r) ==
    /\ At(r, "dp_find")
    /\ IF ~PubExists(ParamsPublicationId(req[r]))
       THEN Reply(r, 404, "Publication not found")
       ELSE Continue(r, "dp_authors") /\ UNCHANGED loc
    /\ UNCHANGED db

\* deletePublication: Author.find({ publication_id }). No request gets here.
DeletePublicationAuthors(r) ==
    /\ At(r, "dp_authors")
    /\ loc' = [loc EXCEPT ![r].count = CountDocuments(ParamsPublicationId(req[r]))]
    /\ Continue(r, IF CountDocuments(ParamsPublicationId(req[r])) > 0
                   THEN "dp_deleteMany" ELSE "dp_delete")
    /\ UNCHANGED db

\* deletePublication: Author.deleteMany({ publication_id }). No request gets
\* here.
DeletePublicationDeleteMany(r) ==
    /\ At(r, "dp_deleteMany")
    /\ authors' = {a \in authors : a.publication_id # ParamsPublicationId(req[r])}
    /\ Continue(r, "dp_delete")
    /\ UNCHANGED <<loc, pubs, departments, nextAuthorId, nextPubId>>

\* deletePublication: Publication.findByIdAndDelete(publication_id). No request
\* gets here.
DeletePublicationDelete(r) ==
    /\ At(r, "dp_delete")
    /\ pubs' = {x \in pubs : x.id # ParamsPublicationId(req[r])}
    /\ Reply(r, 200, "Publication deleted successfully")
    /\ UNCHANGED <<authors, departments, nextAuthorId, nextPubId>>

\* the requests on the Author records and the deletion of a publication;
\* DeletePublicationStart never goes on to the later steps of its handler, which
\* are left out
StepAssigned(r) ==
    \/ RegisterAuthorStart(r)
    \/ RegisterAuthorFind(r)
    \/ RegisterAuthorDepartment(r)
    \/ RegisterAuthorSave(r)
    \/ AssignStart(r)
    \/ AssignTemplate(r)
    \/ AssignPublication(r)
    \/ AssignAssignment(r)
    \/ AssignOrder(r)
    \/ AssignSave(r)
    \/ AssignHookCount(r)
    \/ AssignHookWrite(r)
    \/ RemoveAssignmentStart(r)
    \/ RemoveHookCount(r)
    \/ RemoveHookWrite(r)
    \/ DeleteUnassignedAuthorStart(r)
    \/ DeleteUnassignedAuthorFind(r)
    \/ DeleteUnassignedAuthorCount(r)
    \/ DeleteUnassignedAuthorDelete(r)
    \/ DeletePublicationStart(r)
    \/ Finish(r)

NextAssigned == \E r \in Reqs : StepAssigned(r)

SpecAssigned == InitAssigned /\ [][NextAssigned]_vars

\* ======================================================================
\* The claims
\* ======================================================================
\* no handler is between two awaited calls
Quiet == \A r \in Reqs : pc[r] \in {"idle", "done"}

\* request r answers in this step
Answers(r) == pc[r] \notin {"idle", "done"} /\ pc'[r] = "done"

\* the active assignment records of publication p
ActiveAssignments(p) == {a \in authors : a.publication_id = p /\ a.isActive}

\* ---- C1 --------------------------------------------------------------
\* C1 as stated: whenever no operation is in progress, every publication's
\* coAuthorCount is the number of its active assignment records
C1_CountAlwaysMatches ==
    Quiet => \A x \in pubs : x.coAuthorCount = Cardinality(ActiveAssignments(x.id))

\* C1 amended: when the post-write hook of an assignment or of a removal on
\* publication P completes, P.coAuthorCount is the number of P's active
\* assignment records, and while no operation is in progress this holds of every
\* publication that has assignment records (a publication without any may still
\* carry the coAuthorCount of its registration request)
C1_CountMatchesAfterHook ==
    /\ [](Quiet => \A x \in pubs :
            ActiveAssignments(x.id) # {} =>
              x.coAuthorCount = Cardinality(ActiveAssignments(x.id)))
    /\ [][\A r \in Reqs :
            (Answers(r) /\ pc[r] \in {"as_hookWrite", "rm_hookWrite"}) =>
              \A x \in pubs' :
                x.id = req[r].publication_id =>
                  x.coAuthorCount = Cardinality(ActiveAssignments(x.id)')]_vars

\* two assignments were added to a publication, whose count the hook set to 2
C1_Witness ==
    /\ Quiet
    /\ \E r \in Reqs : req[r].op = "assign" /\ resp[r].status = 201
    /\ \E x \in pubs : x.coAuthorCount = 2 /\ Cardinality(ActiveAssignments(x.id)) = 2

\* ---- C2 --------------------------------------------------------------
\* C2: in every state, under any interleaving, no two assignment records of the
\* same publication have the same author_order
C2_OrderUnique ==
    \A a, b \in authors :
      (a # b /\ a.publication_id # 0 /\ a.publication_id = b.publication_id)
        => a.author_order # b.author_order

\* two requests raced past the order pre-check and the storage write refused one
C2_Witness ==
    \E r \in Reqs :
      /\ pc[r] = "done"
      /\ req[r].op = "assign"
      /\ resp[r].message = "Author order N is already taken for this publication."

\* ---- C3 --------------------------------------------------------------
\* some assignment record of employee e on publication p
PairAssigned(e, p) ==
    \E a \in authors : a.employee_id = e /\ a.publication_id = p

\* C3: no (employee_id, publication_id) pair ever has two assignment records; an
\* assignment request that reaches its assignment pre-check or its storage write
\* while a record of its pair exists answers 400 and writes nothing, and the
\* write of a request that finds no record of its pair and no taken order adds
\* exactly one
C3_SecondAssignmentConflicts ==
    /\ [](\A a, b \in authors :
            (a # b /\ a.publication_id # 0 /\ a.publication_id = b.publication_id)
              => a.employee_id # b.employee_id)
    /\ [][\A r \in Reqs :
            (pc[r] \in {"as_assignment", "as_save"} /\ pc'[r] # pc[r]) =>
              IF PairAssigned(req[r].employee_id, req[r].publication_id)
              THEN pc'[r] = "done" /\ resp'[r].status = 400 /\ authors' = authors
              ELSE (pc[r] = "as_save" /\ pc'[r] # "done") =>
                     /\ Cardinality(authors') = Cardinality(authors) + 1
                     /\ Cardinality({a \in authors' :
                            /\ a.employee_id = req[r].employee_id
                            /\ a.publication_id = req[r].publication_id}) = 1]_vars

\* both requests passed the pre-checks; the storage write refused the second
C3_Witness ==
    \E r \in Reqs :
      /\ pc[r] = "done"
      /\ resp[r].status = 400
      /\ resp[r].message = "Employee ID constraint violation. There may be a problematic unique index on employee_id."
      /\ \E a \in authors : a.publication_id # 0

\* ---- C4 --------------------------------------------------------------
\* the order of assignment request r is held on its publication by a record of
\* another employee
OrderHeldByAnother(r) ==
    \E a \in authors : /\ a.publication_id = req[r].publication_id
                       /\ a.author_order = req[r].author_order
                       /\ a.employee_id # req[r].employee_id

\* an active unassigned record of employee e
HasUnassignedRecord(e) ==
    \E a \in authors : a.employee_id = e /\ a.publication_id = 0 /\ a.isActive

C5_AssignmentNeedsUnassignedRecord ==
    /\ [][\A r \in Reqs :
            (pc[r] = "as_template" /\ pc'[r] # pc[r]) =>
              IF HasUnassignedRecord(req[r].employee_id)
              THEN /\ pc'[r] # "done"
                   /\ \E a \in authors : /\ a.id = loc'[r].found
                                         /\ a.employee_id = req[r].employee_id
                                         /\ a.publication_id = 0
                                         /\ a.isActive
              ELSE /\ pc'[r] = "done"
                   /\ resp'[r].status = 404
                   /\ authors' = authors
      ]_vars
    /\ [][(\E a \in authors' \ authors : a.publication_id # 0) =>
            \E r \in Reqs : /\ pc[r] = "as_save"
                            /\ pc'[r] = "as_hookCount"
                            /\ loc[r].found # 0]_vars

\* an unregistered employee was refused with 404
C5_Witness ==
    \E r \in Reqs :
      /\ pc[r] = "done"
      /\ req[r].op = "assign"
      /\ resp[r].status = 404
      /\ resp[r].message = "Author not found or not registered. Please register the author first."

\* ---- C6 --------------------------------------------------------------
\* the assignment records of employee e
AssignmentsOf(e) == {a \in authors : a.employee_id = e /\ a.publication_id # 0}

\* the unassigned records of employee e
UnassignedOf(e) == {a \in authors : a.employee_id = e /\ a.publication_id = 0}

PreCheckAnswers(r) ==
    (IF PairAssigned(req[r].employee_id, req[r].publication_id)
     THEN {[status |-> 400, message |-> "Author is already assigned to this publication"],
           [status |-> 400, message |-> "Author is already assigned to this publication."]}
     ELSE {})
    \cup
    (IF \E a \in authors : /\ a.publication_id = req[r].publication_id
                           /\ a.author_order = req[r].author_order
     THEN {[status |-> 400, message |-> "Author order N is already taken for this publication"],
           [status |-> 400, message |-> "Author order N is already taken for this publication."]}
     ELSE {})

\* C8: an assignment write that the storage layer rejects with a duplicate-key
\* error is answered with the status and the message of the corresponding
\* pre-check
C8_DuplicateKeyAnsweredAsPreCheck ==
    [][\A r \in Reqs :
         (pc[r] = "as_save" /\ pc'[r] = "done") => resp'[r] \in PreCheckAnswers(r)]_vars

\* ---- C9 --------------------------------------------------------------
\* C9: no Author or Publication references a department that deleteDepartment
\* has deleted (the seeded departments leave the collection only through it)
C9_NoReferenceToDeletedDepartment ==
    /\ \A a \in authors :
         a.department \in SeededDepartments => DepartmentExists(a.department)
    /\ \A x \in pubs :
         x.department \in SeededDepartments => DepartmentExists(x.department)

\* ---- C10 -------------------------------------------------------------
\* C10: a registerPublication request without all required fields or without a
\* file answers 400 and one whose upload fails answers 500, each creating no
\* Publication; a Publication is created only by the save of a request whose
\* upload has returned a URL, and its file_url is that URL
C10_PublicationAfterUpload ==
    [][\A r \in Reqs :
         /\ (pc[r] = "idle" /\ req'[r].op = "registerPublication"
               /\ (req'[r].fields # "ok" \/ ~req'[r].file)) =>
              /\ pc'[r] = "done"
              /\ resp'[r].status = 400
              /\ pubs' = pubs
         /\ (pc[r] = "rp_upload" /\ pc'[r] # pc[r]) =>
              \/ pc'[r] = "done" /\ resp'[r].status = 500 /\ pubs' = pubs
              \/ pc'[r] = "rp_save" /\ loc'[r].url \in Urls /\ pubs' = pubs
         /\ (req[r].op = "registerPublication" /\ pc[r] # pc'[r]
               /\ pubs' # pubs) =>
              /\ pc[r] = "rp_save"
              /\ req[r].file /\ req[r].fields = "ok"
              /\ loc[r].url \in Urls
              /\ resp'[r].status = 201
              /\ \E x \in pubs' : /\ pubs' = pubs \cup {x}
                                  /\ x \notin pubs
                                  /\ x.file_url = loc[r].url]_vars

\* a publication was registered with the URL of its upload
C10_Witness ==
    \E r \in Reqs :
      /\ pc[r] = "done"
      /\ req[r].op = "registerPublication"
      /\ resp[r].status = 201
      /\ \E x \in pubs : x.file_url \in Urls
C12_IsbnUnique ==
    /\ [](\A x, y \in pubs : x # y => x.isbnIssn # y.isbnIssn)
    /\ [][\A r \in Reqs :
            (pc[r] = "rp_save" /\ pc'[r] # pc[r]
               /\ \E x \in pubs : x.isbnIssn = req[r].isbnIssn) =>
              /\ pubs' = pubs
              /\ \/ /\ resp'[r].status = 400
                    /\ resp'[r].message = "Publication with this ISBN/ISSN already exists"
                 \/ resp'[r].status = 500]_vars

\* of two requests in flight together, one registered the publication and the
\* other was refused with the conflict
C12_Witness ==
    \E r, s \in Reqs :
      /\ pc[r] = "done" /\ req[r].op = "registerPublication" /\ resp[r].status = 201
      /\ pc[s] = "done" /\ req[s].op = "registerPublication"
      /\ resp[s].message = "Publication with this ISBN/ISSN already exists"
      /\ Cardinality(pubs) = 1
\* ---- C13 -------------------------------------------------------------
\* the items of the pages the client was given, in order
RECURSIVE Concatenated(_)
Concatenated(pages) ==
    IF pages = <<>> THEN <<>> ELSE Head(pages) \o Concatenated(Tail(pages))

\* C13 (User listing): a client that was given the pages 1..totalPages of the
\* listing, with one limit in 1..100 and one sort, over an unchanged
\* collection, holds totalCount items, every document once, and totalPages =
\* ceil(totalCount / limit); hasPrevPage is false exactly on page 1 and
\* hasNextPage is false exactly on the last page (on page 1 when there is no
\* document)
C13_UserPagesPartition ==
    (query.op = "getUsersWithPagination" /\ query.limit \in 1..MaxLimit
       /\ fetched # <<>>) =>
      LET total == Cardinality(users)
          all == Concatenated(fetched)
      IN /\ result.totalCount = total
         /\ result.totalPages * query.limit >= total
         /\ (result.totalPages - 1) * query.limit < total \/ total = 0
         /\ total = 0 => result.totalPages = 0
         /\ Len(fetched) = result.currentPage
         /\ result.hasPrevPage <=> result.currentPage # 1
         /\ result.hasNextPage <=> result.currentPage < result.totalPages
         /\ ~result.hasNextPage =>
              /\ Len(all) = total
              /\ {all[i].id : i \in 1..Len(all)} = {u.id : u \in users}

\* ---- C14 -------------------------------------------------------------
\* the publications that satisfy every filter the request supplies
C14_Satisfying ==
    {p \in pubs :
       /\ ("year" \in DOMAIN query /\ query.year # 0) =>
            IF query.op = "getPublicationsByPublicationYear"
            THEN ByYearOrPublicationYear(p, query.year)
            ELSE InYearRange(p, query.year)
       /\ ("department" \in DOMAIN query /\ query.department # 0) =>
            p.department = query.department
       /\ ("keywords" \in DOMAIN query /\ query.keywords # {}) =>
            \E keyword \in query.keywords, k \in p.keywords : RegexMatchI(keyword, k)
       /\ ("author" \in DOMAIN query /\ query.author # <<>>) =>
            IF query.op = "searchByAuthor"
            THEN AuthorNameOrAuthorsMatch(p, query.author)
            ELSE AuthorsMatch(p, query.author)}

\* C14: the totalCount of every successful paginated publication search is the
\* number of publications that satisfy all the filters of the request
C14_TotalCountCountsAllFilters ==
    (query.op \in {"searchPublications", "searchByAuthor", "getPublicationsByYear",
                   "getPublicationsByPublicationYear"}
       /\ result.status = 200) =>
      result.totalCount = Cardinality(C14_Satisfying)

\* ---- C15 -------------------------------------------------------------
\* C15: a request of a paginated publication operation that is valid but for a
\* sortBy outside the allow-list is answered without an error, sorted by the
\* default field publication_date
C15_UnlistedSortFallsBack ==
    (query.op \in {"getPublicationsPagination", "searchByAuthor"}
       /\ query.sortBy \notin {"publication_date", "title", "coAuthorCount"}
       /\ query.page >= 1 /\ query.limit >= 1
       /\ (query.op = "searchByAuthor" => query.author # <<>>)) =>
      /\ result.status = 200
      /\ result.sortedBy = "publication_date"

\* ---- C16 -------------------------------------------------------------
\* the publications dated in [year-01-01, (year+1)-01-01)
C16_DatedIn(year) ==
    {p \in pubs : 36 * year <= p.publication_date /\ p.publication_date < 36 * (year + 1)}

\* C16: the year search counts exactly the publications dated in
\* [year-01-01, (year+1)-01-01) and lists only those: all of them when the
\* limit allows
C16_YearIsHalfOpenRange ==
    (query.op \in {"getPublicationsByYear", "getPublicationsByPublicationYear"}
       /\ result.status = 200) =>
      /\ result.totalCount = Cardinality(C16_DatedIn(query.year))
      /\ \A i \in 1..Len(result.items) : result.items[i] \in C16_DatedIn(query.year)
      /\ (query.page = 1 /\ query.limit >= result.totalCount) =>
           {result.items[i] : i \in 1..Len(result.items)} = C16_DatedIn(query.year)
\* ---- C17 -------------------------------------------------------------
\* C17: no item of a response of the User listing or of a User search (by full
\* name, by email, by employee id) has a password field, whatever the stored
\* documents and the query
C17_NoPasswordInItems ==
    (query.op \in {"getUsersWithPagination", "searchUserWithFullName",
                   "searchUserWithEmail", "searchUserWithEmployeeId"}
       /\ result.status = 200) =>
      /\ \A i \in 1..Len(result.items) : "password" \notin DOMAIN result.items[i]
      /\ \A k \in 1..Len(fetched) :
           \A i \in 1..Len(fetched[k]) : "password" \notin DOMAIN fetched[k][i]

\* a search by email returned two stored users, each stored with a password
C17_Witness ==
    /\ query.op = "searchUserWithEmail"
    /\ result.status = 200
    /\ Len(result.items) = 2
    /\ \A i \in 1..Len(result.items) :
         \E u \in users : u.id = result.items[i].id /\ "password" \in DOMAIN u
C19_LoggedOutSessionRejected ==
    [][\A r \in Reqs :
         (pc[r] = "idle" /\ pc'[r] # "idle"
            /\ req'[r].op \in {"protectedRoute", "adminRoute", "logoutAdmin"}
            /\ \E q \in Reqs :
                 /\ pc[q] = "done"
                 /\ req[q].op = "logoutAdmin"
                 /\ resp[q].message = "Logout successful"
                 /\ req[q].sid = req'[r].sid) =>
           (pc'[r] = "done" /\ resp'[r].status = 401)]_vars

\* ---- C20 -------------------------------------------------------------
\* C20: requireAdmin runs the handler only for a session with a userId whose
\* Admin exists, has the role admin or super-admin and is not deactivated;
\* otherwise it answers 401, 403 or 404 and the handler does not run, and when
\* the Admin is missing or deactivated the session is no longer in the store
C20_RequireAdminGate ==
    [][\A r \in Reqs :
         /\ (pc[r] = "idle" /\ req'[r].op = "adminRoute" /\ sess'[r].userId = 0) =>
              (pc'[r] = "done" /\ resp'[r].status = 401)
         /\ (pc[r] = "gate_found" /\ req[r].op = "adminRoute" /\ pc'[r] # pc[r]) =>
              LET user == loc[r].admin
                  allowed == /\ user # NoAdmin
                             /\ user.role \in {"admin", "super-admin"}
                             /\ user.isActive
              IN /\ allowed <=> pc'[r] = "handler"
                 /\ ~allowed => (pc'[r] = "done" /\ resp'[r].status \in {401, 403, 404})
                 /\ (user = NoAdmin \/ ~user.isActive) => store'[sess[r].id] = 0]_vars
\* ---- C21 -------------------------------------------------------------
\* request r answers in this step, straight away or after an awaited call
AnswersNow(r) == pc[r] # "done" /\ pc'[r] = "done"

\* the Admin that request r names has the role super-admin
NamesSuperAdmin(request) ==
    \E a \in admins : a.id = request.admin_id /\ a.role = "super-admin"

\* C21: no step removes an Admin record whose role is super-admin, and a
\* deleteAdmin request that names such a record answers 403 and leaves the Admin
\* collection unchanged
C21_SuperAdminNeverDeleted ==
    [][/\ \A a \in admins :
            a.role = "super-admin" => \E b \in admins' : b.id = a.id
       /\ \A r \in Reqs :
            (AnswersNow(r) /\ req'[r].op = "deleteAdmin" /\ NamesSuperAdmin(req'[r])) =>
              resp'[r].status = 403 /\ admins' = admins]_vars

\* ---- C22 -------------------------------------------------------------
\* C22: a registerDepartment request with a name and a university, let through
\* by the gate, answers 400 and creates no Department when a Department of that
\* name exists, whatever its university, and otherwise answers 201 and adds
\* exactly one Department
C22_RegisterDepartment ==
    [][\A r \in Reqs :
         (AnswersNow(r) /\ pc[r] \in {"rd_find", "rd_save"}) =>
           IF \E d \in departments : d.name = req[r].name
           THEN resp'[r].status = 400 /\ departments' = departments
           ELSE /\ resp'[r].status = 201
                /\ departments \subseteq departments'
                /\ Cardinality(departments' \ departments) = 1]_vars

\* ---- C30 -------------------------------------------------------------
\* the session of request r maps to an existing, active Admin
Authenticated(r) == \E a \in admins : a.id = sess[r].userId /\ a.isActive

\* C30: a step of a request that creates, changes or deletes a Department,
\* Author, Publication or Admin record is a step of a request whose session maps
\* to an existing, active Admin
C30_ChangesOnlyBehindGate ==
    [][\A r \in Reqs :
         (pc'[r] # pc[r] /\ (db' # db \/ admins' # admins)) => Authenticated(r)]_vars

\* ---- C23 -------------------------------------------------------------
\* the documents returned are these, each once, in ascending author_order
ReturnsAscending(expected) ==
    /\ {result.docs[i].id : i \in DOMAIN result.docs} = {a.id : a \in expected}
    /\ Len(result.docs) = Cardinality(expected)
    /\ \A i, j \in DOMAIN result.docs :
         i < j => result.docs[i].author_order < result.docs[j].author_order

\* the active records of publication p
ActiveOf(p) == {a \in authors : a.publication_id = p /\ a.isActive}

\* the primary author returned is an active record of order 1 of the
\* publication, and none when there is no such record
ReturnsPrimary ==
    IF \E a \in ActiveOf(query.publication_id) : a.author_order = 1
    THEN /\ Len(result.docs) = 1
         /\ result.docs[1] \in ActiveOf(query.publication_id)
         /\ result.docs[1].author_order = 1
    ELSE result.docs = <<>>

\* C23 as stated: getCoAuthors returns the active records of the publication,
\* all but the record explicitly excluded (if any), in ascending author_order;
\* the primary author returned is the active record of order 1, none if there is
\* no such record
C23_CoAuthorsAllButExcluded ==
    result # NoResult =>
      IF query.op = "statics.getPrimaryAuthor" THEN ReturnsPrimary
      ELSE query.publication_id # 0 =>
             ReturnsAscending({a \in ActiveOf(query.publication_id) :
                                 a.id # query.author_id})

\* C23 amended: the static getCoAuthors(publication_id) returns the active
\* records of the publication whose author_order is greater than 1, in
\* ascending author_order (the record of order 1 is left out, and no record can
\* be named for exclusion); the method getCoAuthors of a record returns the other
\* active records of the record's publication in ascending author_order, and
\* nothing for an unassigned record; the primary author returned is the active
\* record of order 1, none if there is no such record
C23_CoAuthorsQueries ==
    result # NoResult =>
      IF query.op = "statics.getPrimaryAuthor" THEN ReturnsPrimary
      ELSE IF query.op = "statics.getCoAuthors"
      THEN ReturnsAscending({a \in ActiveOf(query.publication_id) : a.author_order > 1})
      ELSE IF query.publication_id = 0 THEN result.docs = <<>>
      ELSE ReturnsAscending({a \in ActiveOf(query.publication_id) :
                               a.id # query.author_id})

\* the static was asked for a publication with active records of orders 1 and 2
\* and an inactive one, and returned one record
C23_Witness ==
    /\ query.op = "statics.getCoAuthors"
    /\ Len(result.docs) = 1
    /\ \E a \in ActiveOf(query.publication_id) : a.author_order = 1
    /\ \E a \in authors : a.publication_id = query.publication_id /\ ~a.isActive

\* ---- C24 -------------------------------------------------------------
\* request r, a removal of an assignment record, takes this step
RemovalStep(r) ==
    /\ pc'[r] # pc[r]
    /\ pc[r] # "done"
    /\ req'[r].op = "removeAssignment"

\* C24: a step of the removal of an assignment record removes at most that
\* record and changes no field of any other Author record, so the author_order
\* of the remaining assignments of the publication stays as it is; among the
\* other collections it writes nothing but coAuthorCount of the record's
\* publication
C24_RemovalFrame ==
    [][\A r \in Reqs :
         RemovalStep(r) =>
           /\ authors' \subseteq authors
           /\ \A a \in authors : a.id # req'[r].author_id => a \in authors'
           /\ {x.id : x \in pubs'} = {x.id : x \in pubs}
           /\ Cardinality(pubs') = Cardinality(pubs)
           /\ \A x \in pubs : \A y \in pubs' :
                y.id = x.id =>
                  /\ [y EXCEPT !.coAuthorCount = x.coAuthorCount] = x
                  /\ x.id # req'[r].publication_id => y = x
           /\ UNCHANGED <<departments, admins, users>>]_vars

\* the record of order 1 was removed: the record of order 2 remains, with its
\* order, and the hook has set coAuthorCount to 1
C24_Witness ==
    /\ \E r \in Reqs : /\ pc[r] = "done"
                       /\ req[r].op = "removeAssignment"
                       /\ resp[r].status = 200
    /\ \E a \in authors : a.publication_id = 1 /\ a.author_order = 2
    /\ ~\E a \in authors : a.publication_id = 1 /\ a.author_order = 1
    /\ \E x \in pubs : x.id = 1 /\ x.coAuthorCount = 1

\* ---- C25 -------------------------------------------------------------
\* the write of assignment request r succeeds in this step
AssignSaved(r) == pc[r] = "as_save" /\ pc'[r] = "as_hookCount"

\* C25: with requests served one after the other, the write of a successful
\* assignAuthorToPublication adds exactly one
\* Author record; its employee_id and password are those of the unassigned
\* record the request found, its author_name and department are those of the
\* request body when given and those of the unassigned record otherwise; every
\* record that existed is unchanged, the unassigned record among them, which
\* still has no publication_id
C25_AssignmentCopiesTemplate ==
    [][\A r \in Reqs :
         AssignSaved(r) =>
           /\ authors \subseteq authors'
           /\ Cardinality(authors' \ authors) = 1
           /\ \E t \in authors' :
                /\ t.id = loc[r].found
                /\ t.publication_id = 0
                /\ t.employee_id = req[r].employee_id
                /\ \A a \in authors' \ authors :
                     /\ a.publication_id = req[r].publication_id
                     /\ a.author_order = req[r].author_order
                     /\ a.employee_id = t.employee_id
                     /\ a.password = t.password
                     /\ a.author_name = IF req[r].author_name # 0
                                        THEN req[r].author_name ELSE t.author_name
                     /\ a.department = IF req[r].department # 0
                                       THEN req[r].department ELSE t.department]_vars

\* an employee is assigned to two publications, once under the name of the
\* request, and is still registered unassigned
C25_Witness ==
    \E a, b, t \in authors :
      /\ a.employee_id = t.employee_id
      /\ b.employee_id = t.employee_id
      /\ t.publication_id = 0
      /\ a.publication_id = 1
      /\ b.publication_id = 2
      /\ a.author_name # t.author_name
      /\ a.password = t.password
      /\ b.author_name = t.author_name

\* ---- C26 -------------------------------------------------------------
\* a post-write hook on publication p has still to count or to write
HookPending(p) ==
    \E r \in Reqs : /\ pc[r] \in {"as_hookCount", "as_hookWrite",
                                  "rm_hookCount", "rm_hookWrite"}
                    /\ req[r].publication_id = p

\* C26: once the post-write hooks of the assignments and removals on a
\* publication have all completed, whether they ran one after the other or
\* together, the coAuthorCount of a publication that has Author records is the
\* number of those records
C26_CountAfterConcurrentHooks ==
    \A x \in pubs :
      (CountDocuments(x.id) > 0 /\ ~HookPending(x.id)) =>
        x.coAuthorCount = CountDocuments(x.id)

\* ---- C27 -------------------------------------------------------------
\* C27: in every state, under any interleaving of the requests, no employee_id
\* has two active Author records with publication_id null
C27_OneUnassignedRecordPerEmployee ==
    \A a, b \in authors :
      (/\ a.employee_id = b.employee_id
       /\ a.publication_id = 0 /\ b.publication_id = 0
       /\ a.isActive /\ b.isActive) => a = b

\* ---- C28 -------------------------------------------------------------
\* C28: in every state, under any interleaving of assignAuthorToPublication and
\* deleteUnassignedAuthor, an employee with an assignment record has an
\* unassigned record
C28_AssignmentHasUnassignedRecord ==
    \A a \in authors :
      a.publication_id # 0 =>
        \E t \in authors : t.employee_id = a.employee_id /\ t.publication_id = 0

\* ---- C29 -------------------------------------------------------------
\* C29: after every step each Author record with a publication_id references a
\* Publication that exists, and a deletePublication request that answers while
\* the publication it names exists has removed it, with all its assignment
\* records, whatever ran beside it
C29_DeletePublicationRemovesAll ==
    [][/\ \A a \in authors' :
            a.publication_id # 0 => \E x \in pubs' : x.id = a.publication_id
       /\ \A r \in Reqs :
            (/\ AnswersNow(r)
             /\ req'[r].op = "deletePublication"
             /\ PubExists(req'[r].publication_id)) =>
              /\ \A x \in pubs' : x.id # req'[r].publication_id
              /\ \A a \in authors' : a.publication_id # req'[r].publication_id]_vars

====
